---- MODULE Spec2Model ----
(***************************************************************************)
(* Model of the Confluence-to-Markdown exporter                            *)
(* (confluence_markdown_exporter/confluence.py).                           *)
(*                                                                         *)
(* These specifications share the variables below:                         *)
(*   Spec          the reference registry (the lru_cache'd factories       *)
(*                 Page.from_id, Space.from_key, User.from_*,              *)
(*                 JiraIssue.from_key);                                    *)
(*   SpecExport    export_page over that registry and the output directory;*)
(*   SpecConvert   the element handlers of Page.Converter, applied to      *)
(*                 elements drawn from bounded sets;                       *)
(*   SpecDesc      the paging loop of Page.descendants;                    *)
(*   SpecMarkdown  Page.Converter.markdown: the page properties and the    *)
(*                 front matter;                                           *)
(*   SpecWebUI     OpenWebUIExporter.export_content against an Open-WebUI  *)
(*                 server (utils/open_webui_exporter.py);                  *)
(*   SpecSearch    execute_search (main.py) over SearchResults.from_cql;   *)
(*   SpecConfig    set_setting and reset_to_defaults on the configuration  *)
(*                 file (utils/app_data_store.py);                         *)
(*   SpecUpload    _export_content_to_open_webui (main.py): its filter and *)
(*                 its retry loop;                                         *)
(*   SpecFetch     Attachment.from_page_id, the paged fetch of a page's    *)
(*                 attachments.                                            *)
(***************************************************************************)
EXTENDS Integers, Sequences, FiniteSets, TLC

VARIABLES
    cache,      \* kind -> the lru_cache of that factory, least recently used first
    recent,     \* history: kind -> key -> distinct other keys looked up since the
                \* key's last lookup returned, or NotCached when it did not return
    last,       \* the outcome of the most recent call
    files,      \* the Markdown files on disk, by the id of the page they hold
    pc,         \* position of export_page
    cur,        \* the Page export_page is working on
    result,     \* how the most recent export_page call ended
    el,         \* the element handed to a handler of Page.Converter
    cpage,      \* the page of that Converter
    out,        \* what the handler returned or raised
    desc,       \* the locals of a Page.descendants call, with its queries so far
    conv,       \* the Converter of a page: its page_properties and what it rendered
    web,        \* an OpenWebUIExporter.export_content call: its summary, its
                \* position and the requests it sent to Open-WebUI
    search,     \* an execute_search call: its attempts and how it ended
    config,     \* the configuration file of app_data_store, as it is on disk
    run,        \* an _export_content_to_open_webui call: its arguments, what it
                \* hands to export_content and its calls of it
    fetch       \* the locals of an Attachment.from_page_id call

vars == <<cache, recent, last, files, pc, cur, result, el, cpage, out, desc, conv, web, search, config, run, fetch>>

(***************************************************************************)
(* Sizes.  The code's caches hold 1000 pages (Page.from_id) and 100        *)
(* entries of every other kind; the model keeps the two capacities         *)
(* distinct but scales them down, and offers more identifiers than a cache *)
(* can hold.                                                               *)
(***************************************************************************)
PageMaxsize == 2
LruMaxsize == 1

\* identifiers per kind, and pages a run exports or links to
NumPages == 3
NumKeys == 2
NumExported == 2

Kinds == {"page", "space", "accountid", "username", "userkey", "issue"}

maxsize(kind) == IF kind = "page" THEN PageMaxsize ELSE LruMaxsize

\* the pages of the source system; id 0 is no page, but it is the homepage id
\* of the placeholder Space and is looked up when a placeholder page is exported
PageIds == 1 .. NumPages
ExportIds == 1 .. NumExported
Keys(kind) == IF kind = "page" THEN 0 .. NumPages ELSE 1 .. NumKeys

\* what a call to the source system can do
FetchOutcomes == {"ok", "ApiError", "HTTPError"}

NotCached == {-1}
NoValue == [none |-> TRUE]


(***************************************************************************)
(* Records of the source system and the entities built from them.          *)
(***************************************************************************)

\* Space.from_json: every page of the model lives in space 1, whose homepage
\* is page 1
Space_from_json(key) ==
    [key |-> key, name |-> "Space", description |-> "", homepage |-> 1]

SpaceOfPage(id) == 1

ErrorTitle == "[Error: Page not accessible]"

\* Page.from_json, given the Space and the attachments it resolved
Page_from_json(id, space, attachments) ==
    \* the "ancestors" array of a page record: page 1 is the root, page n hangs
    \* under page n-1
    LET SrvAncestors == [i \in 1 .. (IF id > 0 THEN id - 1 ELSE 0) |-> i]
    IN
    [id |-> id, title |-> "Title", space |-> space,
     body |-> "<view>", body_export |-> "<export_view>", editor2 |-> "<editor2>",
     labels |-> <<"label">>, attachments |-> attachments,
     ancestors |-> IF SrvAncestors = <<>> THEN <<>> ELSE Tail(SrvAncestors)]

\* the except-branch of Page.from_id
PlaceholderPage(id) ==
    \* the Space(key="", name="", description="", homepage=0) of the placeholder
    \* page; the empty key is written 0
    LET PlaceholderSpace == [key |-> 0, name |-> "", description |-> "", homepage |-> 0]
    IN
    [id |-> id, title |-> ErrorTitle, space |-> PlaceholderSpace,
     body |-> "", body_export |-> "", editor2 |-> "",
     labels |-> <<>>, attachments |-> <<>>, ancestors |-> <<>>]

(***************************************************************************)
(* functools.lru_cache                                                     *)
(***************************************************************************)
IndexOf(c, key) ==
    IF \E i \in 1 .. Len(c) : c[i].key = key
    THEN CHOOSE i \in 1 .. Len(c) : c[i].key = key
    ELSE 0

\* a cache that evicts in insertion order: a hit does not refresh the entry
lru_cache_fifo(c, size, key, res) ==
    LET i == IndexOf(c, key) IN
    IF i > 0
    THEN [cache |-> c, hit |-> TRUE, raised |-> "none", value |-> c[i].val]
    ELSE IF res.raised # "none"
    THEN [cache |-> c, hit |-> FALSE, raised |-> res.raised, value |-> NoValue]
    ELSE [cache |-> (IF Len(c) >= size THEN Tail(c) ELSE c)
                        \o <<[key |-> key, val |-> res.value]>>,
          hit |-> FALSE, raised |-> "none", value |-> res.value]

\* one call through a cache c of capacity size; res is what the wrapped
\* function returns or raises when it is called.  A hit moves the entry to the
\* most recently used end; a miss that returns is stored, evicting the least
\* recently used entry of a full cache; a miss that raises stores nothing.
lru_cache(c, size, key, res) ==
    LET Without(s, n) == SubSeq(s, 1, n - 1) \o SubSeq(s, n + 1, Len(s))
    IN
    LET i == IndexOf(c, key) IN
    IF i > 0
    THEN [cache |-> Without(c, i) \o <<c[i]>>, hit |-> TRUE,
          raised |-> "none", value |-> c[i].val]
    ELSE IF res.raised # "none"
    THEN [cache |-> c, hit |-> FALSE, raised |-> res.raised, value |-> NoValue]
    ELSE [cache |-> (IF Len(c) >= size THEN Tail(c) ELSE c)
                        \o <<[key |-> key, val |-> res.value]>>,
          hit |-> FALSE, raised |-> "none", value |-> res.value]

\* history of a lookup of key through the cache of kind
Touch(r, kind, key, returned) ==
    [r EXCEPT ![kind] =
        [k \in Keys(kind) |->
            IF k = key THEN (IF returned THEN {} ELSE NotCached)
            ELSE IF r[kind][k] = NotCached THEN NotCached
            ELSE r[kind][k] \cup {key}]]

\* JiraIssue.from_key, User.from_username / from_userkey / from_accountid,
\* Space.from_key: the fetch o is wrapped by the cache of the kind
from_key(cch, kind, key, o) ==
    \* User.from_json, JiraIssue.from_json: the entity of a key
    LET Entity_from_json ==
            IF kind = "space" THEN Space_from_json(key) ELSE [kind |-> kind, key |-> key]
    IN
    lru_cache(cch[kind], maxsize(kind), key,
              IF o = "ok" THEN [raised |-> "none", value |-> Entity_from_json]
              ELSE [raised |-> o, value |-> NoValue])

\* the attachment records of a page (Attachment.from_page_id): one per page
SrvAttachments(id) == <<[id |-> id, title |-> "file", file_id |-> id]>>

\* Page.from_id without its except-branch: an ApiError is raised like any
\* other error
from_id_body_reraise(cch, id, oP, oS, oA) ==
    LET sp == lru_cache(cch["space"], maxsize("space"), SpaceOfPage(id),
                        IF oS = "ok"
                        THEN [raised |-> "none", value |-> Space_from_json(SpaceOfPage(id))]
                        ELSE [raised |-> oS, value |-> NoValue])
        exc == IF oP # "ok" THEN oP
               ELSE IF sp.raised # "none" THEN sp.raised
               ELSE IF oA # "ok" THEN oA
               ELSE "none"
    IN  [space |-> IF oP = "ok" THEN sp.cache ELSE cch["space"],
         spaceLooked |-> (oP = "ok"),
         spaceReturned |-> (sp.raised = "none"),
         failure |-> exc,
         raised |-> exc,
         value |-> IF exc = "none"
                   THEN Page_from_json(id, sp.value, SrvAttachments(id))
                   ELSE NoValue]

\* Page.from_id with an except-branch that catches every error
from_id_body_catchall(cch, id, oP, oS, oA) ==
    LET sp == lru_cache(cch["space"], maxsize("space"), SpaceOfPage(id),
                        IF oS = "ok"
                        THEN [raised |-> "none", value |-> Space_from_json(SpaceOfPage(id))]
                        ELSE [raised |-> oS, value |-> NoValue])
        exc == IF oP # "ok" THEN oP
               ELSE IF sp.raised # "none" THEN sp.raised
               ELSE IF oA # "ok" THEN oA
               ELSE "none"
    IN  [space |-> IF oP = "ok" THEN sp.cache ELSE cch["space"],
         spaceLooked |-> (oP = "ok"),
         spaceReturned |-> (sp.raised = "none"),
         failure |-> exc,
         raised |-> "none",
         value |-> IF exc = "none"
                   THEN Page_from_json(id, sp.value, SrvAttachments(id))
                   ELSE PlaceholderPage(id)]

\* the body of Page.from_id on a cache miss: get_page_by_id (outcome oP), then
\* Page.from_json, which resolves the Space through Space.from_key (fetch
\* outcome oS on a miss of the space cache) and then fetches the attachments
\* (outcome oA).  An ApiError from any of them is turned into the placeholder
\* page, any other error is raised.
from_id_body(cch, id, oP, oS, oA) ==
    LET sp == from_key(cch, "space", SpaceOfPage(id), oS)
        exc == IF oP # "ok" THEN oP
               ELSE IF sp.raised # "none" THEN sp.raised
               ELSE IF oA # "ok" THEN oA
               ELSE "none"
    IN  [space |-> IF oP = "ok" THEN sp.cache ELSE cch["space"],
         spaceLooked |-> (oP = "ok"),
         spaceReturned |-> (sp.raised = "none"),
         failure |-> exc,
         raised |-> IF exc \in {"none", "ApiError"} THEN "none" ELSE exc,
         value |-> IF exc = "none"
                   THEN Page_from_json(id, sp.value, SrvAttachments(id))
                   ELSE IF exc = "ApiError" THEN PlaceholderPage(id)
                   ELSE NoValue]

\* Page.from_id(id): the body above behind lru_cache(maxsize=1000).  Yields
\* the caches and the history after the call, and what the call did.
from_id(cch, rec, id, oP, oS, oA) ==
    LET b == from_id_body(cch, id, oP, oS, oA)
        r == lru_cache(cch["page"], maxsize("page"), id,
                       [raised |-> b.raised, value |-> b.value])
        rec1 == IF ~r.hit /\ b.spaceLooked
                THEN Touch(rec, "space", SpaceOfPage(id), b.spaceReturned)
                ELSE rec
    IN  [cache |-> [cch EXCEPT !["page"] = r.cache,
                               !["space"] = IF r.hit THEN @ ELSE b.space],
         recent |-> Touch(rec1, "page", id, r.raised = "none"),
         hit |-> r.hit,
         raised |-> r.raised,
         value |-> r.value,
         failure |-> IF r.hit THEN "none" ELSE b.failure]

(***************************************************************************)
(* The output directory.                                                   *)
(***************************************************************************)
PagePath(page) == <<"page", page.id>>
AttachmentPath(att) == <<"attachment", att.id>>

Exists(fs, path) == \E f \in fs : f.path = path

\* save_file: writes content at path unless the file is already there
save_file(fs, path, content) ==
    IF Exists(fs, path) THEN fs ELSE fs \cup {[path |-> path, content |-> content]}

Attachment_export_unchecked(fs, att, download) ==
    IF download # "ok" THEN [files |-> fs, requested |-> TRUE]
    ELSE [files |-> save_file(fs, AttachmentPath(att), att.title), requested |-> TRUE]

\* Attachment.export: returns when the file exists, else requests the
\* download link and saves the response unless the request fails
Attachment_export(fs, att, download) ==
    IF Exists(fs, AttachmentPath(att)) THEN [files |-> fs, requested |-> FALSE]
    ELSE IF download # "ok" THEN [files |-> fs, requested |-> TRUE]
    ELSE [files |-> save_file(fs, AttachmentPath(att), att.title), requested |-> TRUE]

(***************************************************************************)
(* Spec: lookups through the registry, and export_page.                    *)
(***************************************************************************)
NoCall == [op |-> "none"]

Init ==
    /\ cache = [k \in Kinds |-> <<>>]
    /\ recent = [k \in Kinds |-> [key \in Keys(k) |-> NotCached]]
    /\ last = NoCall
    /\ files = {}
    /\ pc = "idle"
    /\ cur = NoValue
    /\ result = NoCall
    /\ el = NoValue
    /\ cpage = NoValue
    /\ out = NoCall
    /\ desc = NoCall
    /\ conv = NoCall
    /\ web = NoCall
    /\ search = NoCall
    /\ config = NoCall
    /\ run = NoCall
    /\ fetch = NoCall

\* how a fetch of a page goes: nothing fails, or one of its three requests
\* (the page record, the space, the attachments) is the first to fail
Failures ==
    {[stage |-> "none", exc |-> "none"]} \cup
    [stage : {"page", "space", "attachments"}, exc : {"ApiError", "HTTPError"}]

Outcome(f, stage) == IF f.stage = stage THEN f.exc ELSE "ok"

\* the record left by a lookup; prev is the history of the key before it
Call(kind, key, r, prev) ==
    [op |-> "lookup", kind |-> kind, key |-> key, raised |-> r.raised,
     value |-> r.value, fetched |-> ~r.hit, failure |-> r.failure,
     resolved |-> (prev # NotCached),
     others |-> IF prev = NotCached THEN 0 ELSE Cardinality(prev)]

\* the caches of the users and of the issues are independent of each other and
\* of the page and space caches (only Page.from_id calls Space.from_key): a run
\* goes through the page and space caches or through one of the others
Exclusive(kind) ==
    LET group == IF kind \in {"page", "space"} THEN {"page", "space"} ELSE {kind}
    IN  \A k \in Kinds \ group : cache[k] = <<>>

\* Space.from_key, User.from_username / from_userkey / from_accountid,
\* JiraIssue.from_key
FromKey(kind, key, o) ==
    /\ pc = "idle"
    /\ Exclusive(kind)
    /\ LET r == from_key(cache, kind, key, o) IN
        /\ cache' = [cache EXCEPT ![kind] = r.cache]
        /\ recent' = Touch(recent, kind, key, r.raised = "none")
        /\ last' = Call(kind, key,
                        r @@ [failure |-> IF r.hit \/ o = "ok" THEN "none" ELSE o],
                        recent[kind][key])
    /\ UNCHANGED <<files, pc, cur, result, el, cpage, out, desc, conv, web, search, config, run, fetch>>

\* Page.from_id
FromId(id, f) ==
    /\ pc = "idle"
    /\ Exclusive("page")
    /\ LET r == from_id(cache, recent, id, Outcome(f, "page"), Outcome(f, "space"),
                        Outcome(f, "attachments"))
       IN
        /\ cache' = r.cache
        /\ recent' = r.recent
        /\ last' = Call("page", id, r, recent["page"][id])
    /\ UNCHANGED <<files, pc, cur, result, el, cpage, out, desc, conv, web, search, config, run, fetch>>

Next ==
    \/ \E kind \in Kinds \ {"page"} : \E key \in Keys(kind) : \E o \in FetchOutcomes :
          FromKey(kind, key, o)
    \/ \E id \in PageIds : \E f \in Failures : FromId(id, f)

Spec == Init /\ [][Next]_vars

(***************************************************************************)
(* SpecExport: export_page.  The steps of one call follow each other; a    *)
(* new call starts when the previous one has returned or raised.  The      *)
(* history variables of the registry are not kept here.                    *)
(***************************************************************************)

\* export_page ends, having raised exc ("none" when it returned)
Finish(c, exc) ==
    /\ pc' = "idle"
    /\ cur' = NoValue
    /\ result' = [op |-> "export_page", primary |-> c.primary,
                  raised |-> exc, wrote |-> c.wrote, title |-> c.page.title,
                  existed |-> c.existed, requested |-> c.requested]

\* export_page(page_id): page = Page.from_id(page_id)
ExportPage(id, f) ==
    /\ pc = "idle"
    /\ LET r == from_id(cache, recent, id, Outcome(f, "page"), Outcome(f, "space"),
                        Outcome(f, "attachments"))
           c == [key |-> id, primary |-> r.failure, wrote |-> FALSE, todo |-> <<>>,
                 existed |-> {}, requested |-> FALSE,
                 page |-> IF r.raised = "none" THEN r.value ELSE [title |-> ""]]
       IN
        /\ cache' = r.cache
        /\ IF r.raised # "none"
           THEN Finish(c, r.raised)
           ELSE /\ pc' = "export_path"
                /\ cur' = [c EXCEPT !.todo = <<r.value.space.homepage>> \o r.value.ancestors]
                /\ result' = NoCall
    /\ UNCHANGED <<recent, last, files, el, cpage, out, desc, conv, web, search, config, run, fetch>>

\* Document._template_vars, evaluated for Page.export_path and for
\* Attachment.export_path: the titles of the homepage and of every ancestor
\* are looked up through Page.from_id, one per step
TemplateVars(f) ==
    /\ pc \in {"export_path", "attachment_path"}
    /\ LET r == from_id(cache, recent, Head(cur.todo), Outcome(f, "page"),
                        Outcome(f, "space"), Outcome(f, "attachments"))
       IN
        /\ cache' = r.cache
        /\ IF r.raised # "none"
           THEN Finish(cur, r.raised)
           ELSE /\ cur' = [cur EXCEPT !.todo = Tail(cur.todo)]
                /\ pc' = IF Len(cur.todo) > 1 THEN pc
                         ELSE IF pc = "export_path" THEN "markdown"
                         ELSE "attachment_export"
                /\ UNCHANGED result
    /\ UNCHANGED <<recent, last, files, el, cpage, out, desc, conv, web, search, config, run, fetch>>

\* convert_page_link, reached from a link of the body or from the
\* breadcrumbs: the error of a page that cannot be fetched leaves Page.markdown
ConvertPageLink(id, f) ==
    /\ pc = "markdown"
    /\ LET r == from_id(cache, recent, id, Outcome(f, "page"), Outcome(f, "space"),
                        Outcome(f, "attachments"))
       IN
        /\ cache' = r.cache
        /\ IF r.raised # "none"
           THEN Finish(cur, r.raised)
           ELSE UNCHANGED <<pc, cur, result>>
    /\ UNCHANGED <<recent, last, files, el, cpage, out, desc, conv, web, search, config, run, fetch>>

\* Page.export_markdown: self.markdown, which an element handler may leave by
\* raising, then save_file
ExportMarkdown(converts) ==
    /\ pc = "markdown"
    /\ IF ~converts
       THEN Finish(cur, "ConversionError") /\ UNCHANGED files
       ELSE LET c == [cur EXCEPT !.wrote = TRUE,
                                 !.existed = IF Exists(files, PagePath(cur.page))
                                             THEN {"page"} ELSE {}]
            IN
            /\ files' = save_file(files, PagePath(cur.page), cur.page.title)
            /\ IF cur.page.attachments = <<>>
               THEN Finish(c, "none")
               ELSE /\ pc' = "attachments"
                    /\ cur' = c
                    /\ UNCHANGED result
    /\ UNCHANGED <<cache, recent, last, el, cpage, out, desc, conv, web, search, config, run, fetch>>

\* Page.export_attachments: the attachment is exported when the body
\* references it; its export path is templated from the homepage, the page's
\* ancestors and the page
ExportAttachments(referenced) ==
    /\ pc = "attachments"
    /\ IF ~referenced
       THEN Finish(cur, "none")
       ELSE /\ pc' = "attachment_path"
            /\ cur' = [cur EXCEPT !.todo = <<cur.page.space.homepage>>
                                            \o cur.page.ancestors \o <<cur.page.id>>]
            /\ UNCHANGED result
    /\ UNCHANGED <<cache, recent, last, files, el, cpage, out, desc, conv, web, search, config, run, fetch>>

\* Attachment.export: nothing when the file exists, skipped when the download
\* fails, else saved
AttachmentExport(download) ==
    /\ pc = "attachment_export"
    /\ LET att == cur.page.attachments[1]
           r == Attachment_export(files, att, download)
       IN
        /\ files' = r.files
        /\ Finish([cur EXCEPT !.requested = r.requested,
                              !.existed = IF Exists(files, AttachmentPath(att))
                                          THEN @ \cup {"attachment"} ELSE @], "none")
    /\ UNCHANGED <<cache, recent, last, el, cpage, out, desc, conv, web, search, config, run, fetch>>

NextExport ==
    \/ \E id \in ExportIds : \E f \in Failures : ExportPage(id, f)
    \/ \E f \in Failures : TemplateVars(f)
    \/ \E id \in ExportIds : \E f \in Failures : ConvertPageLink(id, f)
    \/ \E converts \in BOOLEAN : ExportMarkdown(converts)
    \/ \E referenced \in BOOLEAN : ExportAttachments(referenced)
    \/ \E download \in {"ok", "HTTPError"} : AttachmentExport(download)

SpecExport == Init /\ [][NextExport]_vars

(***************************************************************************)
(* Page.Converter.  An element is a record of the attributes the handlers  *)
(* read.  A handler yields the handler that produced the output, the       *)
(* Markdown as a sequence of string pieces or the exception it raised, and *)
(* the lookup it made through the registry.                                *)
(***************************************************************************)

\* identifiers in attributes are digit strings, written as sequences of
\* digits; Null is the literal "null"
Null == <<-1>>

\* int(page_id)
ToInt(digits) == IF Len(digits) = 1 THEN digits[1] ELSE 10 * digits[1] + digits[2]

\* needle in hay, for strings
IsSubstring(needle, hay) ==
    \E i \in 0 .. Len(hay) :
        i + Len(needle) <= Len(hay) /\ SubSeq(hay, i + 1, i + Len(needle)) = needle

CreatePageHref == "/pages/createpage.action?spaceKey=S&title=T"
WikiPageHref == "/wiki/spaces/S/pages/1"
HeadingHref == "#Heading"
ExternalHref == "https://example.org"

\* re.search(r"/wiki/.+?/pages/(\d+)", href): the page id, 0 when no match
WikiPageId(href) == IF href = WikiPageHref THEN 1 ELSE 0

NoLookup == [kind |-> "none", key |-> 0]

Returned(handler, md) ==
    [raised |-> "none", handler |-> handler, md |-> md, lookup |-> NoLookup, rule |-> 0]
Raised(handler, exc) ==
    [raised |-> exc, handler |-> handler, md |-> <<>>, lookup |-> NoLookup, rule |-> 0]

\* Page.get_attachment_by_file_id: next() over the matching attachments
HasFileId(page, file_id) ==
    \E i \in 1 .. Len(page.attachments) : page.attachments[i].file_id = file_id

get_attachment_by_file_id(page, file_id) ==
    page.attachments[CHOOSE i \in 1 .. Len(page.attachments) :
        /\ page.attachments[i].file_id = file_id
        /\ \A j \in 1 .. (i - 1) : page.attachments[j].file_id # file_id]

\* Page.get_attachment_by_id: the first attachment whose id contains the id
HasId(page, id) ==
    \E i \in 1 .. Len(page.attachments) : IsSubstring(id, page.attachments[i].id)

\* Page.get_attachments_by_title
get_attachments_by_title(page, title) ==
    SelectSeq(page.attachments, LAMBDA att : att.title = title)

\* convert_user_mention: the user is fetched (outcome o) when the element
\* carries data-account-id
convert_user_mention(e, o) ==
    \* convert_user_name applied to the display name, or to the link text
    LET convert_user_name(name) == <<name>>
    IN
    IF e.account_id # ""
    THEN [(IF o = "ok"
           THEN Returned("convert_user_mention", convert_user_name("Display Name"))
           ELSE Raised("convert_user_mention", o))
          EXCEPT !.lookup = [kind |-> "accountid", key |-> 1]]
    ELSE Returned("convert_user_mention", convert_user_name(e.text))

\* convert_page_link: the page comes from Page.from_id, where an ApiError
\* (o) yields the placeholder and any other error is raised
convert_page_link(page_id, o) ==
    IF page_id = 0 THEN Raised("convert_page_link", "ValueError")
    ELSE LET b == from_id_body([k \in Kinds |-> <<>>], page_id, o, "ok", "ok") IN
         [(IF b.raised # "none" THEN Raised("convert_page_link", b.raised)
           ELSE Returned("convert_page_link", <<"[", b.value.title, "](", "page.md", ")">>))
          EXCEPT !.lookup = [kind |-> "page", key |-> page_id]]

\* convert_attachment_link
convert_attachment_link(e, page) ==
    LET get_attachment_by_id(id) ==
            page.attachments[CHOOSE i \in 1 .. Len(page.attachments) :
                /\ IsSubstring(id, page.attachments[i].id)
                /\ \A j \in 1 .. (i - 1) : ~IsSubstring(id, page.attachments[j].id)]
    IN
    IF e.media_id # ""
    THEN IF HasFileId(page, e.media_id)
         THEN Returned("convert_attachment_link",
                       <<"[", get_attachment_by_file_id(page, e.media_id).title, "](",
                         get_attachment_by_file_id(page, e.media_id).path, ")">>)
         ELSE Raised("convert_attachment_link", "StopIteration")
    ELSE IF e.resource_id # <<>>
    THEN IF HasId(page, e.resource_id)
         THEN Returned("convert_attachment_link",
                       <<"[", get_attachment_by_id(e.resource_id).title, "](",
                         get_attachment_by_id(e.resource_id).path, ")">>)
         ELSE Raised("convert_attachment_link", "StopIteration")
    ELSE Raised("convert_attachment_link", "UnboundLocalError")

\* MarkdownConverter.convert_a
default_convert_a(e) ==
    IF e.href = "" THEN Returned("MarkdownConverter.convert_a", <<e.text>>)
    ELSE Returned("MarkdownConverter.convert_a", <<"[", e.text, "](", e.href, ")">>)

\* the interpreter's recursion limit, scaled
RecursionLimit == 3

\* convert_a with the create-page test ahead of the user-mention test
RECURSIVE convert_a_createpage_first(_, _, _, _)
convert_a_createpage_first(e, page, o, depth) ==
    IF depth > RecursionLimit THEN Raised("convert_a", "RecursionError")
    ELSE IF e.href = CreatePageHref \/ "createlink" \in e.class
    THEN [(IF page.fallback # NoValue
           THEN convert_a_createpage_first(page.fallback, page, o, depth + 1)
           ELSE Returned("convert_a", <<"[[", e.text, "]]">>)) EXCEPT !.rule = 2]
    ELSE IF "user-mention" \in e.class
    THEN [convert_user_mention(e, o) EXCEPT !.rule = 1]
    ELSE IF e.resource_type = "page" /\ e.resource_id # <<>> /\ e.resource_id # Null
    THEN [convert_page_link(ToInt(e.resource_id), o) EXCEPT !.rule = 3]
    ELSE IF e.resource_type = "attachment"
    THEN [convert_attachment_link(e, page) EXCEPT !.rule = 4]
    ELSE IF WikiPageId(e.href) # 0
    THEN [convert_page_link(WikiPageId(e.href), o) EXCEPT !.rule = 5]
    ELSE IF e.href = HeadingHref
    THEN [Returned("convert_a", <<"[", e.text, "](#", "sanitize_key(text)", ")">>)
          EXCEPT !.rule = 6]
    ELSE [default_convert_a(e) EXCEPT !.rule = 7]

\* convert_a; rule is the number of the return statement that produced the
\* result.  The anchor with the same text in the editor2 body, when there is
\* one, is converted in place of a create-page link; a page-typed link whose
\* id is missing or "null" falls through to the later tests.
RECURSIVE convert_a(_, _, _, _)
convert_a(e, page, o, depth) ==
    IF depth > RecursionLimit THEN Raised("convert_a", "RecursionError")
    ELSE IF "user-mention" \in e.class
    THEN [convert_user_mention(e, o) EXCEPT !.rule = 1]
    ELSE IF e.href = CreatePageHref \/ "createlink" \in e.class
    THEN [(IF page.fallback # NoValue
           THEN convert_a(page.fallback, page, o, depth + 1)
           ELSE Returned("convert_a", <<"[[", e.text, "]]">>)) EXCEPT !.rule = 2]
    ELSE IF e.resource_type = "page" /\ e.resource_id # <<>> /\ e.resource_id # Null
    THEN [convert_page_link(ToInt(e.resource_id), o) EXCEPT !.rule = 3]
    ELSE IF e.resource_type = "attachment"
    THEN [convert_attachment_link(e, page) EXCEPT !.rule = 4]
    ELSE IF WikiPageId(e.href) # 0
    THEN [convert_page_link(WikiPageId(e.href), o) EXCEPT !.rule = 5]
    ELSE IF e.href = HeadingHref
    THEN [Returned("convert_a", <<"[", e.text, "](#", "sanitize_key(text)", ")">>)
          EXCEPT !.rule = 6]
    ELSE [default_convert_a(e) EXCEPT !.rule = 7]

\* MarkdownConverter.convert_img: the alt text alone when "_inline" is among
\* the parent tags, else the image
default_convert_img(e, src, inline) ==
    IF inline THEN Returned("MarkdownConverter.convert_img", <<e.alt>>)
    ELSE Returned("MarkdownConverter.convert_img", <<"![", e.alt, "](", src, ")">>)

convert_img_keep_inline(e, page) ==
    IF e.media_id = "" THEN Returned("convert_img", <<>>)
    ELSE IF ~HasFileId(page, e.media_id) THEN Raised("convert_img", "StopIteration")
    ELSE default_convert_img(e, get_attachment_by_file_id(page, e.media_id).path, e.inline)

\* convert_img; e.inline tells whether "_inline" is among the parent tags,
\* from which convert_img removes it before the image is rendered
convert_img(e, page) ==
    IF e.media_id = "" THEN Returned("convert_img", <<>>)
    ELSE IF ~HasFileId(page, e.media_id) THEN Raised("convert_img", "StopIteration")
    ELSE default_convert_img(e, get_attachment_by_file_id(page, e.media_id).path, FALSE)

\* the character U+0060, which a string of this language cannot hold
Backtick == "U+0060"

\* convert_drawio that looks for the diagram source only
convert_drawio_source_only(e, page) ==
    IF e.diagram = "" THEN Returned("convert_drawio", <<>>)
    ELSE IF get_attachments_by_title(page, e.diagram) = <<>>
    THEN Returned("convert_drawio",
                  <<"\n", "<!-- Drawio diagram ", Backtick, e.diagram, Backtick, " not found -->", "\n", "\n">>)
    ELSE Returned("convert_drawio",
                  <<"\n", "[", "![", e.diagram, "](", "preview", ")", "](",
                    get_attachments_by_title(page, e.diagram)[1].path, ")", "\n", "\n">>)

\* convert_drawio; e.diagram is the name captured by \|diagramName=(.+?)\|,
\* "" when the pattern does not match; the preview is titled <name>.png
PreviewName(name) == IF name = "Foo" THEN "Foo.png" ELSE "?.png"

convert_drawio(e, page) ==
    IF e.diagram = "" THEN Returned("convert_drawio", <<>>)
    ELSE IF get_attachments_by_title(page, e.diagram) = <<>>
            \/ get_attachments_by_title(page, PreviewName(e.diagram)) = <<>>
    THEN Returned("convert_drawio",
                  <<"\n", "<!-- Drawio diagram ", Backtick, e.diagram, Backtick, " not found -->", "\n", "\n">>)
    ELSE Returned("convert_drawio",
                  <<"\n", "[", "![", e.diagram, "](",
                    get_attachments_by_title(page, PreviewName(e.diagram))[1].path, ")", "](",
                    get_attachments_by_title(page, e.diagram)[1].path, ")", "\n", "\n">>)

convert_alert(e) ==
    \* convert_alert
    LET alert_type_map(macro) ==
            CASE macro = "info" -> "IMPORTANT"
              [] macro = "panel" -> "NOTE"
              [] macro = "tip" -> "TIP"
              [] macro = "note" -> "WARNING"
              [] macro = "warning" -> "CAUTION"
              [] OTHER -> "NOTE"
    IN
    Returned("convert_alert", <<"\n", "> [!", alert_type_map(e.macro), "]", "\n", "> ", e.text, "\n">>)

macros_to_ignore == {"qc-read-and-understood-signature-box"}

AlertMacros == {"panel", "info", "note", "tip", "warning"}

\* the keys of macro_handlers
HandledMacros ==
    AlertMacros \cup {"details", "drawio", "scroll-ignore", "toc", "jira", "attachments"}

\* the keys of class_handlers, in their order
class_handlers == <<"expand-container", "columnLayout">>

\* super().convert_div
default_convert_div(e) == Returned("MarkdownConverter.convert_div", <<e.text>>)

\* the handlers of the CSS-class table
convert_by_class(e, name) ==
    IF name = "expand-container"
    THEN Returned("convert_expand_container",
                  <<"\n", "<details>", "\n", "<summary>", "summary", "</summary>", "\n", "\n",
                    e.text, "\n", "\n", "</details>", "\n", "\n">>)
    ELSE IF e.cells < 2 THEN default_convert_div(e)
    ELSE Returned("convert_column_layout", <<"table", e.text>>)

\* the fragments convert_toc and convert_jira_table look for in body_export
Fragments(e, page) == IF e.macro = "toc" THEN page.tocs ELSE page.jira_tables

\* the handler of convert_toc or of convert_jira_table
FragmentHandler(e) == IF e.macro = "toc" THEN "convert_toc" ELSE "convert_jira_table"

\* convert_div that consults the CSS-class table before the macro-name table
RECURSIVE convert_div_class_first(_, _, _)
convert_div_class_first(e, page, depth) ==
    IF depth > RecursionLimit THEN Raised("convert_div", "RecursionError")
    ELSE IF e.macro \in macros_to_ignore THEN Returned("ignored", <<>>)
    ELSE IF \E i \in 1 .. Len(class_handlers) : class_handlers[i] \in e.class
    THEN [convert_by_class(e, class_handlers[CHOOSE i \in 1 .. Len(class_handlers) :
            /\ class_handlers[i] \in e.class
            /\ \A j \in 1 .. (i - 1) : class_handlers[j] \notin e.class])
          EXCEPT !.rule = 2]
    ELSE IF e.macro \in HandledMacros
    THEN [(IF e.macro \in AlertMacros THEN convert_alert(e)
           ELSE IF e.macro = "details" THEN Returned("convert_page_properties", <<>>)
           ELSE IF e.macro = "drawio" THEN convert_drawio(e, page)
           ELSE IF e.macro = "scroll-ignore"
           THEN Returned("convert_hidden_content", <<"\n", "<!--", e.text, "-->", "\n">>)
           ELSE IF e.macro = "attachments" THEN Returned("convert_attachments", <<"table">>)
           ELSE IF Len(Fragments(e, page)) = 0
           THEN Returned(FragmentHandler(e), <<e.text>>)
           ELSE IF Len(Fragments(e, page)) > 1
           THEN Returned(FragmentHandler(e), <<e.text>>)
           ELSE convert_div_class_first(Fragments(e, page)[1], page, depth + 1))
          EXCEPT !.rule = 1]
    ELSE [default_convert_div(e) EXCEPT !.rule = 3]

\* convert_toc and convert_jira_table that convert the first fragment also
\* when several are found
RECURSIVE convert_div_first_fragment(_, _, _)
convert_div_first_fragment(e, page, depth) ==
    IF depth > RecursionLimit THEN Raised("convert_div", "RecursionError")
    ELSE IF e.macro \in macros_to_ignore THEN Returned("ignored", <<>>)
    ELSE IF e.macro \in HandledMacros
    THEN [(IF e.macro \in AlertMacros THEN convert_alert(e)
           ELSE IF e.macro = "details" THEN Returned("convert_page_properties", <<>>)
           ELSE IF e.macro = "drawio" THEN convert_drawio(e, page)
           ELSE IF e.macro = "scroll-ignore"
           THEN Returned("convert_hidden_content", <<"\n", "<!--", e.text, "-->", "\n">>)
           ELSE IF e.macro = "attachments" THEN Returned("convert_attachments", <<"table">>)
           ELSE IF Len(Fragments(e, page)) = 0
           THEN Returned(FragmentHandler(e), <<e.text>>)
           ELSE convert_div_first_fragment(Fragments(e, page)[1], page, depth + 1))
          EXCEPT !.rule = 1]
    ELSE IF \E i \in 1 .. Len(class_handlers) : class_handlers[i] \in e.class
    THEN [convert_by_class(e, class_handlers[CHOOSE i \in 1 .. Len(class_handlers) :
            /\ class_handlers[i] \in e.class
            /\ \A j \in 1 .. (i - 1) : class_handlers[j] \notin e.class])
          EXCEPT !.rule = 2]
    ELSE [default_convert_div(e) EXCEPT !.rule = 3]

\* convert_div, with convert_toc and convert_jira_table in place; rule is the
\* return statement that produced the result (0 the ignore list, 1 the
\* macro-name table, 2 the CSS-class table, 3 the default).  convert_toc and
\* convert_jira_table return the text unless body_export holds exactly one
\* fragment, which process_tag then converts as the div it is.
RECURSIVE convert_div(_, _, _)
convert_div(e, page, depth) ==
    IF depth > RecursionLimit THEN Raised("convert_div", "RecursionError")
    ELSE IF e.macro \in macros_to_ignore THEN Returned("ignored", <<>>)
    ELSE IF e.macro \in HandledMacros
    THEN [(IF e.macro \in AlertMacros THEN convert_alert(e)
           ELSE IF e.macro = "details" THEN Returned("convert_page_properties", <<>>)
           ELSE IF e.macro = "drawio" THEN convert_drawio(e, page)
           ELSE IF e.macro = "scroll-ignore"
           THEN Returned("convert_hidden_content", <<"\n", "<!--", e.text, "-->", "\n">>)
           ELSE IF e.macro = "attachments" THEN Returned("convert_attachments", <<"table">>)
           ELSE IF Len(Fragments(e, page)) = 0
           THEN Returned(FragmentHandler(e), <<e.text>>)
           ELSE IF Len(Fragments(e, page)) > 1
           THEN Returned(FragmentHandler(e), <<e.text>>)
           ELSE convert_div(Fragments(e, page)[1], page, depth + 1))
          EXCEPT !.rule = 1]
    ELSE IF \E i \in 1 .. Len(class_handlers) : class_handlers[i] \in e.class
    THEN [convert_by_class(e, class_handlers[CHOOSE i \in 1 .. Len(class_handlers) :
            /\ class_handlers[i] \in e.class
            /\ \A j \in 1 .. (i - 1) : class_handlers[j] \notin e.class])
          EXCEPT !.rule = 2]
    ELSE [default_convert_div(e) EXCEPT !.rule = 3]

\* options["bullets"][0]
Bullet == "- "

\* MarkdownConverter.convert_li: a newline for an item without text, else
\* the bullet of the list ("1. " standing for the number in an ol), the
\* text and a newline; e.content is the converted text in pieces, every
\* occurrence of "- " in it a piece of its own
default_convert_li(e) ==
    IF e.content = <<>> THEN <<"\n">>
    ELSE <<IF e.parent = "ol" THEN "1. " ELSE Bullet>> \o e.content \o <<"\n">>

\* md.replace(old, new, 1)
ReplaceFirst(md, old, new) ==
    IF \E i \in 1 .. Len(md) : md[i] = old
    THEN [md EXCEPT ![CHOOSE i \in 1 .. Len(md) :
                        md[i] = old /\ \A j \in 1 .. (i - 1) : md[j] # old] = new]
    ELSE md

\* the replacement for the bullet of a task
TaskMark(e) == IF "checked" \in e.class THEN "- [x] " ELSE "- [ ] "

convert_li_replace_all(e) ==
    IF e.task
    THEN Returned("convert_li",
                  [i \in 1 .. Len(default_convert_li(e)) |->
                      IF default_convert_li(e)[i] = Bullet THEN TaskMark(e)
                      ELSE default_convert_li(e)[i]])
    ELSE Returned("convert_li", default_convert_li(e))

\* convert_li; e.task tells whether the item carries data-inline-task-id
convert_li(e) ==
    IF e.task
    THEN Returned("convert_li", ReplaceFirst(default_convert_li(e), Bullet, TaskMark(e)))
    ELSE Returned("convert_li", default_convert_li(e))

(***************************************************************************)
(* SpecConvert: one element, drawn with the page it belongs to, is handed  *)
(* to its handler.  An exception a handler raises leaves process_tag,      *)
(* convert and Page.markdown, none of which catches it.                    *)
(***************************************************************************)
BaseElement ==
    [tag |-> "", class |-> {}, href |-> "", resource_type |-> "", resource_id |-> <<>>,
     media_id |-> "", account_id |-> "", macro |-> "", diagram |-> "", cells |-> 0,
     alt |-> "alt", text |-> "text", inline |-> FALSE,
     parent |-> "", task |-> FALSE, content |-> <<>>]

AElements ==
    LET ResourceIds == {<<>>, Null, <<0>>, <<1>>, <<9>>}
    IN
    LET Hrefs == {"", CreatePageHref, WikiPageHref, HeadingHref, ExternalHref}
    IN
    {[BaseElement EXCEPT !.tag = "a", !.class = c, !.href = h, !.resource_type = t,
                         !.resource_id = r, !.media_id = m, !.account_id = u] :
        c \in SUBSET {"user-mention", "createlink"}, h \in Hrefs,
        t \in {"", "page", "attachment"}, r \in ResourceIds,
        m \in {"", "F1", "F9"}, u \in {"", "account-1"}}

ImgElements ==
    {[BaseElement EXCEPT !.tag = "img", !.media_id = m, !.inline = i, !.text = ""] :
        m \in {"", "F1", "F9"}, i \in BOOLEAN}

LiElements ==
    {[BaseElement EXCEPT !.tag = "li", !.parent = p, !.task = t, !.class = c, !.content = x] :
        p \in {"ul", "ol"}, t \in BOOLEAN, c \in {{}, {"checked"}},
        x \in {<<>>, <<"task">>, <<"a ", Bullet, "b">>,
                <<"task", "\n", "  ", Bullet, "child">>}}

DivElements ==
    LET DivMacros == HandledMacros \cup macros_to_ignore \cup {"", "code"}
    IN
    {[BaseElement EXCEPT !.tag = "div", !.macro = m, !.class = c, !.diagram = d, !.cells = n] :
        m \in DivMacros, c \in SUBSET {"expand-container", "columnLayout"},
        d \in {"", "Foo"}, n \in {1, 2}}

\* the attachments of the page: a diagram source and its preview
DiagramSource ==
    [id |-> <<1, 2>>, file_id |-> "F1", title |-> "Foo", path |-> "attachments/F1.drawio"]
DiagramPreview ==
    [id |-> <<3>>, file_id |-> "F2", title |-> "Foo.png", path |-> "attachments/F2.drawio.png"]

\* the div.toc-macro and div.jira-table fragments of body_export, plain or
\* carrying data-macro-name themselves
MaxFragments == 2

BasePage ==
    [attachments |-> <<>>, fallback |-> NoValue, tocs |-> <<>>, jira_tables |-> <<>>,
     labels |-> <<>>]

\* the pages an element is converted on: what its handler reads varies
PagesFor(e) ==
    LET FragmentsOf(class, macro) ==
            LET plain == [BaseElement EXCEPT !.tag = "div", !.class = {class}, !.text = "fragment"]
                marked == [plain EXCEPT !.macro = macro]
            IN  UNION {[1 .. n -> {plain, marked}] : n \in 0 .. MaxFragments}
    IN
    \* the anchor of the editor2 body that has the text of the link, if any
    LET FallbackAnchors ==
            {NoValue,
             [BaseElement EXCEPT !.tag = "a", !.href = ExternalHref],
             [BaseElement EXCEPT !.tag = "a", !.resource_type = "page", !.resource_id = <<1>>],
             [BaseElement EXCEPT !.tag = "a", !.class = {"createlink"}]}
    IN
    LET AttachmentLists ==
            {<<>>, <<DiagramSource>>, <<DiagramPreview>>, <<DiagramSource, DiagramPreview>>}
    IN
    IF e.tag = "a"
    THEN {[BasePage EXCEPT !.attachments = a, !.fallback = f] :
            a \in {<<>>, <<DiagramSource, DiagramPreview>>}, f \in FallbackAnchors}
    ELSE IF e.tag = "img" \/ e.macro = "drawio"
    THEN {[BasePage EXCEPT !.attachments = a] : a \in AttachmentLists}
    ELSE IF e.macro = "toc"
    THEN {[BasePage EXCEPT !.tocs = t] : t \in FragmentsOf("toc-macro", "toc")}
    ELSE IF e.macro = "jira"
    THEN {[BasePage EXCEPT !.jira_tables = t] : t \in FragmentsOf("jira-table", "jira")}
    ELSE {BasePage}

InitConvert ==
    /\ cache = [k \in Kinds |-> <<>>]
    /\ recent = [k \in Kinds |-> [key \in Keys(k) |-> NotCached]]
    /\ last = NoCall
    /\ files = {}
    /\ pc = "idle"
    /\ cur = NoValue
    /\ result = NoCall
    /\ el \in AElements \cup ImgElements \cup DivElements \cup LiElements
    /\ cpage \in PagesFor(el)
    /\ out = NoCall
    /\ desc = NoCall
    /\ conv = NoCall
    /\ web = NoCall
    /\ search = NoCall
    /\ config = NoCall
    /\ run = NoCall
    /\ fetch = NoCall

\* the registry after the lookup a handler made, with fetch outcome o
Resolve(r, o) ==
    IF r.lookup.kind = "page"
    THEN from_id(cache, recent, r.lookup.key, o, "ok", "ok").cache
    ELSE IF r.lookup.kind = "accountid"
    THEN [cache EXCEPT !["accountid"] = from_key(cache, "accountid", r.lookup.key, o).cache]
    ELSE cache

Converted(r, o) ==
    /\ out' = [op |-> "convert", fetch |-> o] @@ r
    /\ cache' = Resolve(r, o)
    /\ UNCHANGED <<recent, last, files, pc, cur, result, el, cpage, desc, conv, web, search, config, run, fetch>>

ConvertA(o) ==
    /\ out = NoCall /\ el.tag = "a"
    /\ Converted(convert_a(el, cpage, o, 1), o)

ConvertImg ==
    /\ out = NoCall /\ el.tag = "img"
    /\ Converted(convert_img(el, cpage), "ok")

ConvertDiv ==
    /\ out = NoCall /\ el.tag = "div"
    /\ Converted(convert_div(el, cpage, 1), "ok")

ConvertLi ==
    /\ out = NoCall /\ el.tag = "li"
    /\ Converted(convert_li(el), "ok")

NextConvert ==
    \/ \E o \in FetchOutcomes : ConvertA(o)
    \/ ConvertImg
    \/ ConvertDiv
    \/ ConvertLi

SpecConvert == InitConvert /\ [][NextConvert]_vars

(***************************************************************************)
(* C1-C2: the reference registry                                           *)
(***************************************************************************)

C2_PlaceholderOnAnyFailure ==
    (last.op = "lookup" /\ last.kind = "page" /\ last.failure # "none")
        => /\ last.raised = "none"
           /\ last.value.id = last.key
           /\ last.value.title = ErrorTitle

\* C2: when the fetch fails with an ApiError, Page.from_id does not raise and
\* returns a placeholder carrying the requested id, the sentinel title, empty
\* bodies and no labels, attachments or ancestors; when it fails with any
\* other error, that error is raised.
C2_PlaceholderOnApiError ==
    (last.op = "lookup" /\ last.kind = "page" /\ last.failure # "none")
        => IF last.failure = "ApiError"
           THEN /\ last.raised = "none"
                /\ last.value.id = last.key
                /\ last.value.title = "[Error: Page not accessible]"
                /\ last.value.body = "" /\ last.value.body_export = ""
                /\ last.value.editor2 = ""
                /\ last.value.labels = <<>> /\ last.value.attachments = <<>>
                /\ last.value.ancestors = <<>>
           ELSE last.raised = last.failure /\ last.value = NoValue

\* a page fetch failed with an ApiError and the placeholder came back
C2_Witness ==
    /\ last.op = "lookup" /\ last.kind = "page" /\ last.failure = "ApiError"
    /\ last.raised = "none" /\ last.value.title = ErrorTitle

(***************************************************************************)
(* C3: export_page                                                         *)
(***************************************************************************)

\* C3 as claimed: when the fetch of the page to export fails, export_page
\* raises and writes no Markdown file.
C3_FetchFailureAborts ==
    (result.op = "export_page" /\ result.primary # "none")
        => result.raised # "none" /\ ~result.wrote

\* C3: when the fetch of the page to export fails with an error other than
\* ApiError, export_page raises that error and writes no Markdown file; when
\* it fails with an ApiError, the placeholder page is what export_page goes on
\* to export.
C3_NonApiErrorAborts ==
    (result.op = "export_page" /\ result.primary # "none")
        => IF result.primary = "ApiError"
           THEN result.title = ErrorTitle
           ELSE result.raised = result.primary /\ ~result.wrote

\* an export whose page fetch failed with an HTTPError has raised
C3_Witness ==
    /\ result.op = "export_page" /\ result.primary = "HTTPError"
    /\ result.raised = "HTTPError" /\ ~result.wrote

(***************************************************************************)
(* C4-C6, C9, C10: the element handlers                                    *)
(***************************************************************************)

\* the element refers to an attachment the page does not have, or to a page
\* whose fetch failed
MissingReference ==
    \/ el.tag = "img" /\ el.media_id # "" /\ ~HasFileId(cpage, el.media_id)
    \/ /\ el.tag = "a" /\ out.rule = 4
       /\ \/ el.media_id # "" /\ ~HasFileId(cpage, el.media_id)
          \/ el.media_id = "" /\ el.resource_id # <<>> /\ ~HasId(cpage, el.resource_id)
    \/ el.tag = "a" /\ out.rule \in {3, 5} /\ out.lookup.kind = "page" /\ out.fetch # "ok"

\* C4: an img or link that refers to an attachment missing from the page, or
\* a link to a page that cannot be fetched, is converted without raising.
C4_MissingReferenceDegrades ==
    (out.op = "convert" /\ MissingReference) => out.raised = "none"

\* the tests of convert_a as the claim numbers them; page_needs_id tells
\* whether rule 3 asks for a usable linked-resource id
Matches(e, n, page_needs_id) ==
    CASE n = 1 -> "user-mention" \in e.class
      [] n = 2 -> e.href = CreatePageHref \/ "createlink" \in e.class
      [] n = 3 -> /\ e.resource_type = "page"
                  /\ page_needs_id => e.resource_id \notin {<<>>, Null}
      [] n = 4 -> e.resource_type = "attachment"
      [] n = 5 -> e.href = WikiPageHref
      [] n = 6 -> e.href = HeadingHref
      [] OTHER -> TRUE

FirstRule(e, page_needs_id) ==
    CHOOSE n \in 1 .. 7 :
        /\ Matches(e, n, page_needs_id)
        /\ \A m \in 1 .. (n - 1) : ~Matches(e, m, page_needs_id)

RuleHandler(n) ==
    CASE n = 1 -> "convert_user_mention"
      [] n \in {3, 5} -> "convert_page_link"
      [] n = 4 -> "convert_attachment_link"
      [] n \in {2, 6} -> "convert_a"
      [] OTHER -> "MarkdownConverter.convert_a"

\* C5 as claimed: a link is handled by the first of the seven rules it
\* matches, rule 3 being "the linked-resource type names a page".
C5_FirstMatchingRule ==
    (out.op = "convert" /\ el.tag = "a") => out.rule = FirstRule(el, FALSE)

\* C5: a link is handled by the first rule it matches, in the order user
\* mention, create-page placeholder, page-typed resource with an id that is
\* neither missing nor "null", attachment-typed resource, internal page
\* href, '#' href, default; a create-page placeholder becomes [[text]] when
\* the editor2 body has no anchor with its text and is else converted as
\* that anchor.
C5_FirstMatchingRuleWithId ==
    (out.op = "convert" /\ el.tag = "a") =>
        /\ out.rule = FirstRule(el, TRUE)
        /\ out.rule # 2 => out.handler = RuleHandler(out.rule)
        /\ (out.rule = 2 /\ cpage.fallback = NoValue) =>
               out.raised = "none" /\ out.md = <<"[[", el.text, "]]">>
        /\ (out.rule = 2 /\ cpage.fallback # NoValue
                /\ FirstRule(cpage.fallback, TRUE) # 2) =>
               out.handler = RuleHandler(FirstRule(cpage.fallback, TRUE))

\* a link that is a user mention and a create-page placeholder at once was
\* handled as a user mention
C5_Witness ==
    /\ out.op = "convert" /\ el.tag = "a"
    /\ Matches(el, 1, TRUE) /\ Matches(el, 2, TRUE) /\ Matches(el, 4, TRUE)
    /\ out.rule = 1 /\ out.handler = "convert_user_mention"

\* the entry of macro_handlers
MacroHandler(macro) ==
    CASE macro \in AlertMacros -> "convert_alert"
      [] macro = "details" -> "convert_page_properties"
      [] macro = "drawio" -> "convert_drawio"
      [] macro = "scroll-ignore" -> "convert_hidden_content"
      [] macro = "toc" -> "convert_toc"
      [] macro = "jira" -> "convert_jira_table"
      [] OTHER -> "convert_attachments"

\* macro-name table, then CSS-class table, then default
TableOrder ==
    LET HasHandledClass(e) == \E i \in 1 .. Len(class_handlers) : class_handlers[i] \in e.class
    IN
    /\ el.macro \in HandledMacros =>
          /\ out.rule = 1
          /\ el.macro \notin {"toc", "jira"} => out.handler = MacroHandler(el.macro)
    /\ (el.macro \notin HandledMacros /\ HasHandledClass(el)) =>
          /\ out.rule = 2
          /\ out.handler = IF "expand-container" \in el.class THEN "convert_expand_container"
                           ELSE IF el.cells < 2 THEN "MarkdownConverter.convert_div"
                           ELSE "convert_column_layout"
    /\ (el.macro \notin HandledMacros /\ ~HasHandledClass(el)) =>
          out.rule = 3 /\ out.handler = "MarkdownConverter.convert_div"

\* C6 as claimed: every div goes by the macro-name table, then by the
\* CSS-class table, then to the default handler.
C6_MacroThenClassThenDefault ==
    (out.op = "convert" /\ el.tag = "div") => TableOrder

\* C6: a div whose data-macro-name is in macros_to_ignore converts to the
\* empty string whatever classes it carries; every other div goes by the
\* macro-name table, then by the CSS-class table, then to the default handler.
C6_IgnoredElseMacroThenClass ==
    (out.op = "convert" /\ el.tag = "div") =>
        IF el.macro \in macros_to_ignore
        THEN out.rule = 0 /\ out.raised = "none" /\ out.md = <<>>
        ELSE TableOrder

\* a div with a handled macro name and a handled class went to the macro's
\* handler, and one with an unhandled macro name went by its class
C6_Witness ==
    /\ out.op = "convert" /\ el.tag = "div"
    /\ el.macro = "info" /\ "expand-container" \in el.class
    /\ out.handler = "convert_alert"

\* C9: a toc or jira macro whose fragment is missing from body_export, or
\* found more than once, converts to its own text; with exactly one
\* fragment the converted fragment takes its place (its text, when it is a
\* plain div).
C9_OneFragmentOrText ==
    (out.op = "convert" /\ el.tag = "div" /\ el.macro \in {"toc", "jira"}) =>
        LET found == Fragments(el, cpage) IN
        /\ Len(found) # 1 =>
              /\ out.raised = "none" /\ out.md = <<el.text>>
              /\ out.handler = FragmentHandler(el)
        /\ Len(found) = 1 =>
              LET r == convert_div(found[1], cpage, 2) IN
              /\ out.raised = r.raised /\ out.md = r.md /\ out.handler = r.handler
              /\ found[1].macro = "" =>
                    /\ out.raised = "none" /\ out.md = <<found[1].text>>
                    /\ out.handler = "MarkdownConverter.convert_div"

\* a toc macro on a page whose body_export holds two toc fragments kept its
\* text
C9_Witness ==
    /\ out.op = "convert" /\ el.macro = "toc" /\ Len(cpage.tocs) = 2
    /\ out.md = <<el.text>>

\* str.strip() of the Markdown: the newlines around it are dropped
RECURSIVE Strip(_)
Strip(md) ==
    IF md = <<>> THEN md
    ELSE IF Head(md) = "\n" THEN Strip(Tail(md))
    ELSE IF md[Len(md)] = "\n" THEN Strip(SubSeq(md, 1, Len(md) - 1))
    ELSE md

paging_limit == 2
MaxTotal == 4

\* the k-th hit of the search, as the server numbers them
SrvHit(k) == k

\* what one confluence.cql call can come back with: a page of up to
\* paging_limit hits from offset start with a declared total, an HTTP error
\* with a status (0: an HTTPError that carries no response), or another error
Responses(start) ==
    [error : {"none"},
     results : {[i \in 1 .. n |-> SrvHit(start + i)] : n \in 0 .. paging_limit},
     totalSize : 0 .. MaxTotal]
    \cup [error : {"HTTPError"}, status : {404, 500, 0}]
    \cup [error : {"ConnectionError"}]

descendants_entry(id) ==
    [pc |-> "loop", id |-> id, start |-> 0, total_size |-> paging_limit,
     page_ids |-> <<>>, offsets |-> <<>>, sizes |-> <<>>, totals |-> <<>>,
     failure |-> "none", status |-> 0, raised |-> "none", value |-> <<>>]

descendants_return(d, exc, value) ==
    [d EXCEPT !.pc = "done", !.raised = exc, !.value = value]

descendants_step_prepend(d, r) ==
    LET q == [d EXCEPT !.offsets = Append(@, d.start)] IN
    IF r.error = "HTTPError"
    THEN LET f == [q EXCEPT !.failure = r.error, !.status = r.status] IN
         IF r.status = 0 THEN descendants_return(f, "AttributeError", <<>>)
         ELSE descendants_return(f, "none", <<>>)
    ELSE IF r.error # "none"
    THEN descendants_return([q EXCEPT !.failure = r.error], "none", <<>>)
    ELSE LET size == Len(r.results)
             n == [q EXCEPT !.page_ids = r.results \o @,
                            !.sizes = Append(@, size),
                            !.totals = Append(@, r.totalSize),
                            !.total_size = r.totalSize]
         IN  IF size = 0 THEN descendants_return(n, "none", n.page_ids)
             ELSE [n EXCEPT !.start = @ + size]

descendants_step_propagate(d, r) ==
    LET q == [d EXCEPT !.offsets = Append(@, d.start)] IN
    IF r.error = "HTTPError"
    THEN LET f == [q EXCEPT !.failure = r.error, !.status = r.status] IN
         IF r.status = 0 THEN descendants_return(f, "AttributeError", <<>>)
         ELSE IF r.status = 404 THEN descendants_return(f, "none", <<>>)
         ELSE descendants_return(f, "HTTPError", <<>>)
    ELSE IF r.error # "none"
    THEN descendants_return([q EXCEPT !.failure = r.error], "none", <<>>)
    ELSE LET size == Len(r.results)
             n == [q EXCEPT !.page_ids = @ \o r.results,
                            !.sizes = Append(@, size),
                            !.totals = Append(@, r.totalSize),
                            !.total_size = r.totalSize]
         IN  IF size = 0 THEN descendants_return(n, "none", n.page_ids)
             ELSE [n EXCEPT !.start = @ + size]

\* one turn of the while loop: the query at offset start came back with r
descendants_step(d, r) ==
    LET q == [d EXCEPT !.offsets = Append(@, d.start)] IN
    IF r.error = "HTTPError"
    THEN LET f == [q EXCEPT !.failure = r.error, !.status = r.status] IN
         IF r.status = 0 THEN descendants_return(f, "AttributeError", <<>>)
         ELSE IF r.status = 404 THEN descendants_return(f, "none", <<>>)
         ELSE descendants_return(f, "none", <<>>)
    ELSE IF r.error # "none"
    THEN descendants_return([q EXCEPT !.failure = r.error], "none", <<>>)
    ELSE LET size == Len(r.results)
             n == [q EXCEPT !.page_ids = @ \o r.results,
                            !.sizes = Append(@, size),
                            !.totals = Append(@, r.totalSize),
                            !.total_size = r.totalSize]
         IN  IF size = 0 THEN descendants_return(n, "none", n.page_ids)
             ELSE [n EXCEPT !.start = @ + size]

Others == <<cache, recent, last, files, pc, cur, result, el, cpage, out, conv, web, search, config, run, fetch>>

Descendants(id) ==
    /\ desc = NoCall
    /\ desc' = descendants_entry(id)
    /\ UNCHANGED Others

DescendantsQuery(r) ==
    /\ desc # NoCall /\ desc.pc = "loop"
    /\ desc.start < desc.total_size
    /\ desc' = descendants_step(desc, r)
    /\ UNCHANGED Others

DescendantsReturn ==
    /\ desc # NoCall /\ desc.pc = "loop"
    /\ ~(desc.start < desc.total_size)
    /\ desc' = descendants_return(desc, "none", desc.page_ids)
    /\ UNCHANGED Others

\* the offset the next query asks for
Offset == IF desc = NoCall THEN 0 ELSE desc.start

NextDesc ==
    \/ \E id \in ExportIds : Descendants(id)
    \/ \E r \in Responses(Offset) : DescendantsQuery(r)
    \/ DescendantsReturn

SpecDesc == Init /\ [][NextDesc]_vars

\* a call that has started goes on: the loop is sequential code
FairSpecDesc == SpecDesc /\ WF_vars(NextDesc)

(***************************************************************************)
(* C7, C8: Page.descendants                                                *)
(***************************************************************************)

\* what the first i answered queries of the call brought, in fetch order
RECURSIVE FetchedUpTo(_, _)
FetchedUpTo(d, i) ==
    IF i = 0 THEN <<>>
    ELSE FetchedUpTo(d, i - 1) \o [k \in 1 .. d.sizes[i] |-> SrvHit(d.offsets[i] + k)]

Completed == desc # NoCall /\ desc.pc = "done" /\ desc.failure = "none"

C7_Paging ==
    desc # NoCall =>
        \* offsets strictly increase
        /\ \A i \in 1 .. Len(desc.offsets) - 1 : desc.offsets[i] < desc.offsets[i + 1]
        \* a query was followed by another only if it brought results and left
        \* the offset below the total it declared
        /\ \A i \in 1 .. Len(desc.offsets) - 1 :
              /\ desc.sizes[i] > 0
              /\ desc.offsets[i + 1] = desc.offsets[i] + desc.sizes[i]
              /\ desc.offsets[i + 1] < desc.totals[i]
        \* the call ends only on an empty response or on reaching the total,
        \* and returns what was fetched, in fetch order
        /\ Completed =>
              /\ \/ desc.sizes[Len(desc.sizes)] = 0
                 \/ desc.start >= desc.total_size
              /\ desc.raised = "none"
              /\ desc.value = FetchedUpTo(desc, Len(desc.sizes))

\* C7: Page.descendants queries at strictly increasing offsets, stops as
\* soon as a response is empty or the offset reaches the declared total,
\* returns the ids of all fetched results in fetch order, and, the declared
\* total being bounded, terminates.
C7_PagedUntilDone ==
    /\ []C7_Paging
    /\ <>(desc # NoCall /\ desc.pc = "done")

\* a call that took three queries and ended on reaching the declared total
C7_Witness ==
    /\ Completed
    /\ Len(desc.offsets) = 3 /\ desc.sizes[3] > 0
    /\ desc.start >= desc.total_size
    /\ Len(desc.value) = desc.start

FailedOnHttpStatus ==
    /\ desc # NoCall /\ desc.pc = "done"
    /\ desc.failure = "HTTPError" /\ desc.status # 0

\* C8 as claimed: a not-found failure gives the empty list, any other HTTP
\* error comes out of Page.descendants.
C8_OtherHttpErrorPropagates ==
    FailedOnHttpStatus =>
        IF desc.status = 404
        THEN desc.raised = "none" /\ desc.value = <<>>
        ELSE desc.raised = "HTTPError"

\* C8: when a descendant query fails with an HTTP error that carries a
\* response, not-found or any other status, Page.descendants returns the
\* empty list without raising, and the failed query was the last one: it
\* is not retried.
C8_HttpErrorGivesEmptyList ==
    FailedOnHttpStatus =>
        /\ desc.raised = "none" /\ desc.value = <<>>
        /\ Len(desc.offsets) = Len(desc.sizes) + 1
        /\ \A i, j \in 1 .. Len(desc.offsets) :
              i # j => desc.offsets[i] # desc.offsets[j]

\* the second query failed with status 500 and the ids of the first were
\* dropped
C8_Witness ==
    /\ FailedOnHttpStatus /\ desc.status = 500
    /\ Len(desc.offsets) = 2 /\ desc.page_ids # <<>>
    /\ desc.raised = "none" /\ desc.value = <<>>

(***************************************************************************)
(* C11: the output directory                                               *)
(***************************************************************************)

\* C11: an export never overwrites: every file stays as it is; when the
\* Markdown file of the page exists, export_markdown leaves the directory
\* unchanged; when the file of the attachment exists, Attachment.export
\* leaves the directory unchanged and requests no download.
C11_NeverOverwrites ==
    [][/\ \A f \in files : f \in files'
       /\ (pc = "markdown" /\ Exists(files, PagePath(cur.page))) => files' = files
       /\ (pc = "attachment_export"
              /\ Exists(files, AttachmentPath(cur.page.attachments[1]))) =>
            /\ files' = files
            /\ result'.op = "export_page" /\ ~result'.requested]_vars

\* a page was exported again, under another title than the file holds, and
\* its Markdown file and its attachment were both found in place
C11_Witness ==
    /\ result.op = "export_page" /\ result.raised = "none"
    /\ result.existed = {"page", "attachment"} /\ ~result.requested
    /\ \E f \in files : f.path[1] = "page" /\ f.content # result.title

(***************************************************************************)
(* C12: images                                                             *)
(***************************************************************************)

IsImage(md) == Len(md) = 5 /\ md[1] = "![" /\ md[3] = "](" /\ md[5] = ")"

\* C12 as claimed, for the images whose attachment is not missing from the
\* page: every img element is rendered as an image, inline context or not.
C12_EveryImgRendered ==
    (out.op = "convert" /\ el.tag = "img" /\ ~MissingReference) =>
        out.raised = "none" /\ IsImage(out.md)

\* C12: an img element whose data-media-id names an attachment of the page
\* is rendered as an image of that attachment, also inside a context marked
\* inline; an img element without data-media-id converts to the empty
\* string.
C12_ImgOfAttachmentRendered ==
    (out.op = "convert" /\ el.tag = "img") =>
        /\ (el.media_id # "" /\ HasFileId(cpage, el.media_id)) =>
              /\ out.raised = "none" /\ IsImage(out.md)
              /\ out.md[2] = el.alt
              /\ out.md[4] = get_attachment_by_file_id(cpage, el.media_id).path
        /\ el.media_id = "" => out.raised = "none" /\ out.md = <<>>

\* an image inside an inline context came out as an image
C12_Witness ==
    /\ out.op = "convert" /\ el.tag = "img" /\ el.inline
    /\ el.media_id = "F1" /\ HasFileId(cpage, "F1")
    /\ IsImage(out.md)

(***************************************************************************)
(* SpecMarkdown: Page.Converter.markdown.  The body is converted, each     *)
(* details macro of it handing its table to convert_page_properties, then  *)
(* the front matter is rendered from the properties and the labels.        *)
(***************************************************************************)

MaxRows == 2
MaxTables == 2

\* a dict without entries
EmptyDict == [k \in {} |-> ""]

\* the values of properties: a string or a list of strings
Str(s) == [str |-> s]
List(l) == [list |-> l]

\* sanitize_key: a label such as Owner names its property
sanitize_key(key) == key

\* the rows of a details table: the th and td cells of each tr, a cell being
\* the text of a label or the converted, stripped value
Rows ==
    {<<>>, <<"Owner">>, <<"Owner", "Alice", "extra">>}
    \cup {<<"Owner", v>> : v \in {"", "Alice", "Bob"}}
    \cup {<<"Status", "Done">>, <<"tags", "x">>}

Tables == UNION {[1 .. n -> Rows] : n \in 0 .. MaxRows}

\* Converter.labels
labels(page) == [i \in 1 .. Len(page.labels) |-> <<"#", page.labels[i]>>]

\* set_page_properties(**props): the entries with a truthy value are set
set_page_properties(page_properties, props) ==
    LET Truthy(v) == v # Str("") /\ v # List(<<>>)
    IN
    LET set == {k \in DOMAIN props : Truthy(props[k])}
        keys == {sanitize_key(k) : k \in set}
    IN  [key \in DOMAIN page_properties \cup keys |->
            IF key \in keys
            THEN props[CHOOSE k \in set : sanitize_key(k) = key]
            ELSE page_properties[key]]

\* the dict comprehension of convert_page_properties over the first n rows
RECURSIVE RowProps(_, _)
RowProps(rows, n) ==
    IF n = 0 THEN EmptyDict
    ELSE LET props == RowProps(rows, n - 1) IN
         IF Len(rows[n]) = 2
         THEN [k \in DOMAIN props \cup {rows[n][1]} |->
                  IF k = rows[n][1] THEN Str(rows[n][2]) ELSE props[k]]
         ELSE props

convert_page_properties_two_or_more(page_properties, rows) ==
    LET kept == SelectSeq(rows, LAMBDA row : Len(row) >= 2)
        two == [i \in 1 .. Len(kept) |-> SubSeq(kept[i], 1, 2)]
    IN  IF rows = <<>> THEN page_properties
        ELSE set_page_properties(page_properties, RowProps(two, Len(two)))

\* convert_page_properties: the properties after the table was read
convert_page_properties(page_properties, rows) ==
    IF rows = <<>> THEN page_properties
    ELSE set_page_properties(page_properties, RowProps(rows, Len(rows)))

Yaml(page_properties) ==
    \* yaml.dump lists the keys in sorted order
    LET KeyOrder == <<"Owner", "Status", "tags">>
    IN
    LET present == SelectSeq(KeyOrder, LAMBDA k : k \in DOMAIN page_properties)
    IN  [i \in 1 .. Len(present) |-> <<present[i], page_properties[present[i]]>>]

\* front_matter rendered from the properties as they are before the body
\* is converted: none
front_matter_before_body(page_properties, page) ==
    LET props == set_page_properties(EmptyDict, [tags |-> List(labels(page))])
    IN  [page_properties |-> props,
         yml |-> Yaml(props),
         text |-> IF DOMAIN props = {} THEN <<>>
                  ELSE <<"---", "\n", "yml", "\n", "---", "\n">>]

front_matter_always(page_properties, page) ==
    LET props == set_page_properties(page_properties, [tags |-> List(labels(page))])
    IN  [page_properties |-> props,
         yml |-> Yaml(props),
         text |-> <<"---", "\n", "yml", "\n", "---", "\n">>]

\* front_matter: the labels become the property tags; no properties, no
\* block.  text is the rendered block, "yml" standing for the lines of yml
front_matter(page_properties, page) ==
    LET props == set_page_properties(page_properties, [tags |-> List(labels(page))])
    IN  [page_properties |-> props,
         yml |-> Yaml(props),
         text |-> IF DOMAIN props = {} THEN <<>>
                  ELSE <<"---", "\n", "yml", "\n", "---", "\n">>]

InitMarkdown ==
    \* Page.labels
    LET LabelLists == {<<>>, <<"a">>, <<"a", "b">>}
    IN
    /\ cache = [k \in Kinds |-> <<>>]
    /\ recent = [k \in Kinds |-> [key \in Keys(k) |-> NotCached]]
    /\ last = NoCall
    /\ files = {}
    /\ pc = "idle"
    /\ cur = NoValue
    /\ result = NoCall
    /\ el = NoValue
    /\ cpage \in {[BasePage EXCEPT !.labels = l] : l \in LabelLists}
    /\ out = NoCall
    /\ desc = NoCall
    /\ conv = [pc |-> "convert", page_properties |-> EmptyDict, tables |-> 0,
               before |-> EmptyDict, rows |-> <<>>, body |-> EmptyDict,
               yml |-> <<>>, front_matter |-> <<>>, markdown |-> <<>>]
    /\ web = NoCall
    /\ search = NoCall
    /\ config = NoCall
    /\ run = NoCall
    /\ fetch = NoCall

OthersMarkdown ==
    <<cache, recent, last, files, pc, cur, result, el, cpage, out, desc, web, search, config, run, fetch>>

\* a details macro of the body is converted
ConvertPageProperties(rows) ==
    /\ conv.pc = "convert" /\ conv.tables < MaxTables
    /\ conv' = [conv EXCEPT !.page_properties = convert_page_properties(@, rows),
                            !.tables = @ + 1,
                            !.before = conv.page_properties,
                            !.rows = rows]
    /\ UNCHANGED OthersMarkdown

\* the body is converted (body: the properties its details macros set);
\* markdown then renders the front matter and puts it, a newline, the body
\* and a newline together
Markdown ==
    /\ conv.pc = "convert"
    /\ LET fm == front_matter(conv.page_properties, cpage) IN
       conv' = [conv EXCEPT !.pc = "done",
                            !.body = conv.page_properties,
                            !.page_properties = fm.page_properties,
                            !.yml = fm.yml,
                            !.front_matter = fm.text,
                            !.markdown = fm.text \o <<"\n", "md_body", "\n">>]
    /\ UNCHANGED OthersMarkdown

NextMarkdown ==
    \/ \E rows \in Tables : ConvertPageProperties(rows)
    \/ Markdown

SpecMarkdown == InitMarkdown /\ [][NextMarkdown]_vars

(***************************************************************************)
(* C13, C14: front matter and page properties                              *)
(***************************************************************************)

Rendered == conv # NoCall /\ conv.pc = "done"

\* C13: for a page with no labels and no property tables the front matter
\* is the empty string, and the Markdown of the page holds no '---' block:
\* it is a newline, the body and a newline.  The front matter is empty
\* exactly when no property was set.
C13_NoMetadataNoFrontMatter ==
    Rendered =>
        /\ (cpage.labels = <<>> /\ conv.tables = 0) =>
              /\ conv.front_matter = <<>>
              /\ conv.markdown = <<"\n", "md_body", "\n">>
        /\ conv.front_matter = <<>> <=> DOMAIN conv.page_properties = {}
        /\ conv.front_matter # <<>> => conv.front_matter[1] = "---"

\* a page without labels and without details macro was rendered
C13_Witness ==
    /\ Rendered /\ cpage.labels = <<>> /\ conv.tables = 0
    /\ conv.front_matter = <<>> /\ conv.markdown[1] = "\n"

\* a table has just been read by convert_page_properties
Extracted == conv # NoCall /\ conv.pc = "convert" /\ conv.tables > 0

TwoCellRows(rows) == {i \in 1 .. Len(rows) : Len(rows[i]) = 2}

\* C14 as claimed: the extraction adds one property per row of exactly two
\* cells.
C14_OnePropertyPerTwoCellRow ==
    (Extracted /\ conv.before = EmptyDict) =>
        Cardinality(DOMAIN conv.page_properties) = Cardinality(TwoCellRows(conv.rows))

\* C14: the extraction reads the rows of exactly two cells (label,
\* converted value) and skips every other row; it sets one property per
\* label, to the value of the last such row of the label, and sets none for
\* a label whose value is empty; the properties of other labels stay.
C14_OnePropertyPerLabel ==
    \* the value of the last two-cell row of the label
    LET LastValue(rows, label) ==
            LET of == {i \in TwoCellRows(rows) : rows[i][1] = label}
            IN  rows[CHOOSE i \in of : \A j \in of : j <= i][2]
    IN
    Extracted =>
        \A label \in {"Owner", "Status"} :
            LET key == sanitize_key(label)
                of == {i \in TwoCellRows(conv.rows) : conv.rows[i][1] = label}
            IN  IF of # {} /\ LastValue(conv.rows, label) # ""
                THEN /\ key \in DOMAIN conv.page_properties
                     /\ conv.page_properties[key] = Str(LastValue(conv.rows, label))
                ELSE /\ key \in DOMAIN conv.page_properties <=> key \in DOMAIN conv.before
                     /\ key \in DOMAIN conv.before =>
                            conv.page_properties[key] = conv.before[key]

\* a table with a three-cell row and a two-cell row gave the property of the
\* two-cell row alone
C14_Witness ==
    /\ Extracted /\ conv.before = EmptyDict
    /\ conv.rows = <<<<"Owner", "Alice", "extra">>, <<"Status", "Done">>>>
    /\ DOMAIN conv.page_properties = {"Status"}
    /\ conv.page_properties["Status"] = Str("Done")

(***************************************************************************)
(* C15: task lists                                                         *)
(***************************************************************************)

TaskConverted == out.op = "convert" /\ el.tag = "li" /\ el.task

\* C15 as claimed: the bullet of the task item itself, and nothing else, is
\* rewritten to the task mark.
C15_OwnBulletRewritten ==
    TaskConverted =>
        out.md = <<TaskMark(el)>> \o Tail(default_convert_li(el))

\* C15: for a task item the first occurrence of '- ' in the converted item,
\* if there is one, is rewritten to '- [x] ' when the item has class
\* checked and to '- [ ] ' otherwise, and nothing else changes; for an item
\* with text in an unordered list that occurrence is the item's own bullet.
C15_FirstBulletRewritten ==
    TaskConverted =>
        LET md == default_convert_li(el)
            at == {i \in 1 .. Len(md) : md[i] = Bullet}
        IN  /\ out.raised = "none" /\ Len(out.md) = Len(md)
            /\ \A i \in 1 .. Len(md) :
                  out.md[i] = IF i \in at /\ \A j \in at : i <= j THEN TaskMark(el) ELSE md[i]
            /\ (el.parent = "ul" /\ el.content # <<>>) =>
                  out.md = <<TaskMark(el)>> \o Tail(md)

\* a checked task with a nested list: its own bullet was rewritten, the
\* bullet of the nested item was not
C15_Witness ==
    /\ TaskConverted /\ el.parent = "ul" /\ "checked" \in el.class
    /\ Len(out.md) = 7 /\ out.md[1] = "- [x] " /\ out.md[5] = Bullet

(***************************************************************************)
(* OpenWebUIExporter.export_content (utils/open_webui_exporter.py) and the *)
(* requests it makes through OpenWebUIClient (clients/open_webui_client.py)*)
(* An HTTP answer of the server is a record: status 0 stands for a request *)
(* that got no answer (a connection error).                                *)
(***************************************************************************)
MaxPages == 2
MaxAttachments == 2

\* filter_attachments asking the configured allowed list before the
\* configured blocked list
filter_attachments_allowed_first(attachments, allowed_extensions, blocked_extensions) ==
    LET IsBlocked(ext) ==
            IF ext = "" THEN FALSE
            ELSE IF ext \in allowed_extensions THEN FALSE
            ELSE IF ext \in blocked_extensions THEN TRUE
            ELSE IF ext \in {".txt", ".md", ".json", ".yaml", ".yml", ".csv"} THEN FALSE
            ELSE ext \in {".exe", ".bat", ".sh", ".dll", ".so", ".dmg", ".iso"}
    IN  [allowed |-> SelectSeq(attachments, LAMBDA a : ~IsBlocked(a)),
         blocked |-> SelectSeq(attachments, IsBlocked)]

\* AttachmentFilter.filter_attachments over the extensions of the
\* attachments ("" when _get_extension finds none)
filter_attachments(attachments, allowed_extensions, blocked_extensions) ==
    LET default_allowed_extensions == {".txt", ".md", ".json", ".yaml", ".yml", ".csv"}
        default_blocked_extensions == {".exe", ".bat", ".sh", ".dll", ".so", ".dmg", ".iso"}
        IsBlocked(ext) ==
            IF ext = "" THEN FALSE
            ELSE IF ext \in blocked_extensions THEN TRUE
            ELSE IF ext \in allowed_extensions THEN FALSE
            ELSE IF ext \in default_allowed_extensions THEN FALSE
            ELSE ext \in default_blocked_extensions
    IN  [allowed |-> SelectSeq(attachments, LAMBDA a : ~IsBlocked(a)),
         blocked |-> SelectSeq(attachments, IsBlocked)]

\* the counting methods of the summary (add_page_success, add_page_failure,
\* add_page_skipped, add_attachment_success, add_attachment_failure,
\* add_attachment_skipped, add_attachment_filtered) called n times: each
\* call adds 1 to its counter
Summary_add(s, counter, n) == [s EXCEPT ![counter] = @ + n]

\* the answers of the server to a file upload or an add-file request
ServerAnswers ==
    {[status |-> 200, detail |-> "", id |-> "file-1"],
     [status |-> 200, detail |-> "", id |-> ""],
     [status |-> 400, detail |-> "Duplicate content detected", id |-> ""],
     [status |-> 400, detail |-> "Invalid file", id |-> ""],
     [status |-> 401, detail |-> "", id |-> ""],
     [status |-> 0, detail |-> "", id |-> ""]}

\* bool(response) of requests: Response.__bool__ is Response.ok; an
\* exception raised without an answer carries response None
ResponseTruthy(r) == r.status # 0 /\ r.status < 400

\* OpenWebUIClient.add_file_to_knowledge: what it returns or that it raised,
\* with the requests it sent. has_file_id: file_data names an uploaded file.
add_file_to_knowledge(has_file_id, up, add) ==
    \* OpenWebUIClient._make_request: raise_for_status is called for a 401
    \* only, every other answer is returned; a connection error is re-raised
    LET _make_request(r) ==
            IF r.status = 0 THEN [raised |-> TRUE, response |-> r]
            ELSE IF r.status = 401 THEN [raised |-> TRUE, response |-> r]
            ELSE [raised |-> FALSE, response |-> r]
    IN
    LET \* OpenWebUIClient.upload_file: the id of the file, "" for None
        upload_file ==
            LET u == _make_request(up) IN
            IF u.raised THEN ""
            ELSE IF ResponseTruthy(u.response) /\ u.response.status = 200
            THEN u.response.id
            ELSE ""
        NoJson == [id |-> "", detail |-> "", duplicate_content |-> FALSE]
        r == _make_request(add)
        uploads == IF has_file_id THEN 0 ELSE 1
    IN  IF ~has_file_id /\ upload_file = ""
        THEN [raised |-> TRUE, value |-> NoJson, uploads |-> 1, adds |-> 0]
        ELSE IF ~r.raised
        THEN [raised |-> FALSE,
              value |-> [id |-> add.id, detail |-> add.detail,
                         duplicate_content |-> FALSE],
              uploads |-> uploads, adds |-> 1]
        ELSE IF /\ ResponseTruthy(r.response)
                /\ r.response.status = 400
                /\ r.response.detail = "Duplicate content detected"
        THEN [raised |-> FALSE,
              value |-> [id |-> "", detail |-> "", duplicate_content |-> TRUE],
              uploads |-> uploads, adds |-> 1]
        ELSE [raised |-> TRUE, value |-> NoJson, uploads |-> uploads, adds |-> 1]

\* _export_page and _export_attachment share this body: read the local
\* content, add the file to the knowledge base, return "DUPLICATE_CONTENT",
\* the id of the answer, or "" for None
ExportItem(readable, knowledge_base_id, up, add) ==
    IF ~readable \/ knowledge_base_id = ""
    THEN [file_id |-> "", uploads |-> 0, adds |-> 0, called |-> FALSE]
    ELSE LET file_obj == add_file_to_knowledge(FALSE, up, add)
             is_duplicate_content_error == file_obj.value.duplicate_content = TRUE
         IN  [file_id |-> IF file_obj.raised THEN ""
                          ELSE IF is_duplicate_content_error THEN "DUPLICATE_CONTENT"
                          ELSE file_obj.value.id,
              uploads |-> file_obj.uploads, adds |-> file_obj.adds,
              called |-> file_obj.adds = 1]

\* _create_or_get_knowledge_base: the knowledge base of that name when the
\* listing of get_knowledge has one, else the one create_knowledge returns;
\* None (ok FALSE) on any exception, one of them being create_knowledge
\* returning None
_create_or_get_knowledge_base(get, create) ==
    IF get.kind = "error" THEN [ok |-> FALSE, id |-> ""]
    ELSE IF get.kind = "found" THEN [ok |-> TRUE, id |-> get.id]
    ELSE IF create.kind = "created" THEN [ok |-> TRUE, id |-> create.id]
    ELSE [ok |-> FALSE, id |-> ""]

InitWebUI ==
    /\ cache = [k \in Kinds |-> <<>>]
    /\ recent = [k \in Kinds |-> [key \in Keys(k) |-> NotCached]]
    /\ last = NoCall
    /\ files = {}
    /\ pc = "idle"
    /\ cur = NoValue
    /\ result = NoCall
    /\ el = NoValue
    /\ cpage = NoValue
    /\ out = NoCall
    /\ desc = NoCall
    /\ conv = NoCall
    /\ search = NoCall
    /\ config = NoCall
    /\ run = NoCall
    /\ fetch = NoCall
    /\ \E np \in 1 .. MaxPages,
          atts \in UNION {[1 .. n -> {"", ".pdf", ".exe", ".txt"}] : n \in 0 .. MaxAttachments},
          sk \in BOOLEAN, be \in {{}, {".pdf"}}, ae \in {{}, {".pdf", ".exe"}} :
         web = [pc |-> "start", pages |-> np, attachments |-> atts,
                space_keys |-> sk, blocked_extensions |-> be,
                allowed_extensions |-> ae,
                allowed |-> <<>>, blocked |-> <<>>,
                summary |-> NoValue, knowledge_base_id |-> "",
                i |-> 0, uploaded_file_ids |-> <<>>,
                uploads |-> 0, adds |-> 0,
                outcomes |-> <<>>, last |-> NoCall]

OthersWebUI ==
    <<cache, recent, last, files, pc, cur, result, el, cpage, out, desc, conv, search,
      config, run, fetch>>

\* export_content up to the summary: no space gives the summary of
\* _create_failed_summary (failed_pages = 1, then add_page_failure), else
\* the attachments are filtered and the summary is initialised
WebStart ==
    \* the counters of a new OpenWebUIExportSummary
    LET OpenWebUIExportSummary(total_pages, total_attachments, failed, filtered) ==
            [knowledge_base_id |-> "",
             total_pages |-> total_pages, total_attachments |-> total_attachments,
             successful_pages |-> 0, successful_attachments |-> 0,
             failed_pages |-> failed, failed_attachments |-> 0,
             skipped_pages |-> 0, skipped_attachments |-> 0,
             filtered_attachments |-> filtered]
    IN
    /\ web # NoCall /\ web.pc = "start"
    /\ IF ~web.space_keys
       THEN web' = [web EXCEPT
                !.pc = "done",
                !.summary = Summary_add(
                    OpenWebUIExportSummary(web.pages, Len(web.attachments), 1, 0),
                    "failed_pages", 1)]
       ELSE LET f == filter_attachments(web.attachments, web.allowed_extensions,
                                         web.blocked_extensions) IN
            web' = [web EXCEPT
                !.pc = "kb",
                !.allowed = f.allowed,
                !.blocked = f.blocked,
                !.summary = OpenWebUIExportSummary(web.pages, Len(web.attachments),
                                                   0, Len(f.blocked))]
    /\ UNCHANGED OthersWebUI

\* lines 156-186 without the two returns: every failure is followed by the
\* loop over pages
KnowledgeBaseStep_no_return(w, knowledge_base) ==
    IF ~knowledge_base.ok \/ knowledge_base.id = ""
    THEN [w EXCEPT !.pc = "pages",
                   !.summary = Summary_add(w.summary, "failed_pages", 1)]
    ELSE [w EXCEPT
             !.pc = "pages",
             !.knowledge_base_id = knowledge_base.id,
             !.summary = Summary_add(
                 [w.summary EXCEPT !.knowledge_base_id = knowledge_base.id],
                 "filtered_attachments", Len(w.blocked))]

\* export_content once _create_or_get_knowledge_base returned: without a
\* knowledge base, or without its id, it returns with one add_page_failure;
\* with it the id is kept and add_attachment_filtered is called for every
\* blocked attachment
KnowledgeBaseStep(w, knowledge_base) ==
    IF ~knowledge_base.ok \/ knowledge_base.id = ""
    THEN [w EXCEPT !.pc = "done",
                   !.summary = Summary_add(w.summary, "failed_pages", 1)]
    ELSE [w EXCEPT
             !.pc = "pages",
             !.knowledge_base_id = knowledge_base.id,
             !.summary = Summary_add(
                 [w.summary EXCEPT !.knowledge_base_id = knowledge_base.id],
                 "filtered_attachments", Len(w.blocked))]

\* the knowledge base is created or fetched, under the answers of
\* get_knowledge and create_knowledge
WebKnowledgeBase ==
    /\ web # NoCall /\ web.pc = "kb"
    /\ \E get \in {[kind |-> "error", id |-> ""], [kind |-> "absent", id |-> ""],
                   [kind |-> "found", id |-> "kb-1"], [kind |-> "found", id |-> ""]},
          create \in {[kind |-> "error", id |-> ""], [kind |-> "none", id |-> ""],
                      [kind |-> "created", id |-> "kb-1"],
                      [kind |-> "created", id |-> ""]} :
         web' = KnowledgeBaseStep(web, _create_or_get_knowledge_base(get, create))
    /\ UNCHANGED OthersWebUI

\* one round of the loop over pages. The arguments of the _export_page call
\* are evaluated first: primary_space is not bound, the NameError is caught
\* by the except clause of the loop body and counted as a page failure.
\* outcomes keeps what _export_page returns for the page under the answers
\* of the server.
WebPage ==
    \* is the name bound in export_content (a parameter or a local it assigns);
    \* evaluating a name that is not raises NameError
    LET Bound(name) ==
            name \in {"self", "content_collector", "output_path", "pages", "attachments",
                      "progress_callback", "start_time", "space_keys", "primary_space_key",
                      "space_details", "knowledge_base_name", "description",
                      "filtered_attachments", "allowed_attachments", "blocked_attachments",
                      "summary", "knowledge_base", "kb_id", "uploaded_file_ids", "i",
                      "page", "attachment", "file_id"}
    IN
    /\ web # NoCall /\ web.pc = "pages"
    /\ \E readable \in BOOLEAN, up \in ServerAnswers, add \in ServerAnswers :
         LET r == ExportItem(readable, web.knowledge_base_id, up, add)
             called == Bound("primary_space")
             file_id == r.file_id
             counter == IF ~called THEN "failed_pages"
                        ELSE IF file_id = "DUPLICATE_CONTENT" THEN "skipped_pages"
                        ELSE IF file_id # "" THEN "successful_pages"
                        ELSE "failed_pages"
             last_page == web.i + 1 = web.pages
         IN  web' = [web EXCEPT
                 !.summary = Summary_add(@, counter, 1),
                 !.outcomes = Append(@, file_id),
                 !.uploaded_file_ids =
                     IF counter = "successful_pages" THEN Append(@, file_id) ELSE @,
                 !.uploads = IF called THEN @ + r.uploads ELSE @,
                 !.adds = IF called THEN @ + r.adds ELSE @,
                 !.i = IF last_page THEN 0 ELSE @ + 1,
                 !.pc = IF ~last_page THEN @
                        ELSE IF Len(web.allowed) > 0 THEN "attachments"
                        ELSE "register"]
    /\ UNCHANGED OthersWebUI

\* one round of the loop over allowed_attachments. last keeps the answer to
\* the add-file request, what _export_attachment returned and how the
\* attachment was counted.
WebAttachment ==
    /\ web # NoCall /\ web.pc = "attachments"
    /\ \E readable \in BOOLEAN, up \in ServerAnswers, add \in ServerAnswers :
         LET r == ExportItem(readable, web.knowledge_base_id, up, add)
             file_id == r.file_id
             counter == IF file_id = "DUPLICATE_CONTENT" THEN "skipped_attachments"
                        ELSE IF file_id # "" THEN "successful_attachments"
                        ELSE "failed_attachments"
             last_attachment == web.i + 1 = Len(web.allowed)
         IN  web' = [web EXCEPT
                 !.summary = Summary_add(@, counter, 1),
                 !.uploaded_file_ids =
                     IF counter = "successful_attachments"
                     THEN Append(@, file_id) ELSE @,
                 !.uploads = @ + r.uploads,
                 !.adds = @ + r.adds,
                 !.last = [op |-> "add", called |-> r.called, answer |-> add,
                           file_id |-> file_id, counter |-> counter],
                 !.i = IF last_attachment THEN 0 ELSE @ + 1,
                 !.pc = IF last_attachment THEN "register" ELSE @]
    /\ UNCHANGED OthersWebUI

\* the uploaded files are registered with the knowledge base, one
\* add-file request each, and the summary is returned
WebRegister ==
    /\ web # NoCall /\ web.pc = "register"
    /\ web' = [web EXCEPT
           !.adds = IF web.uploaded_file_ids # <<>> /\ web.knowledge_base_id # ""
                    THEN @ + Len(web.uploaded_file_ids) ELSE @,
           !.pc = "done"]
    /\ UNCHANGED OthersWebUI

NextWebUI ==
    \/ WebStart
    \/ WebKnowledgeBase
    \/ WebPage
    \/ WebAttachment
    \/ WebRegister

SpecWebUI == InitWebUI /\ [][NextWebUI]_vars

\* C16: when export_content ran with a knowledge base available, every page
\* is counted once, by the outcome of its upload: successful when the upload
\* returned a file id, skipped when it returned DUPLICATE_CONTENT, failed
\* otherwise; so when every upload returned a file id, successful_pages is
\* total_pages and failed_pages is 0.
C16_PagesCountedByOutcome ==
    (web # NoCall /\ web.pc = "done" /\ web.knowledge_base_id # "") =>
        LET ids == {i \in DOMAIN web.outcomes :
                       web.outcomes[i] \notin {"", "DUPLICATE_CONTENT"}}
            dup == {i \in DOMAIN web.outcomes : web.outcomes[i] = "DUPLICATE_CONTENT"}
            none == {i \in DOMAIN web.outcomes : web.outcomes[i] = ""}
        IN  /\ web.summary.successful_pages = Cardinality(ids)
            /\ web.summary.skipped_pages = Cardinality(dup)
            /\ web.summary.failed_pages = Cardinality(none)
            /\ Cardinality(ids) = web.summary.total_pages =>
                   /\ web.summary.successful_pages = web.summary.total_pages
                   /\ web.summary.failed_pages = 0

\* C17: when the add-file request is answered with HTTP 400 and a detail
\* holding "duplicate content detected", add_file_to_knowledge returns a
\* response marked duplicate_content (it neither raises nor returns the
\* error body), and the item is counted as skipped, not as failed.
C17_DuplicateIsSkipped ==
    (/\ web # NoCall /\ web.last # NoCall /\ web.last.called
     /\ web.last.answer.status = 400
     /\ web.last.answer.detail = "Duplicate content detected") =>
        /\ web.last.file_id = "DUPLICATE_CONTENT"
        /\ web.last.counter = "skipped_attachments"

\* C18: export_content sends no file upload and no add-file request unless a
\* knowledge base with a non-empty id was obtained first; when none can be
\* obtained it returns at once, with one page failure, no success and an
\* empty knowledge_base_id in the summary.
C18_NoRequestWithoutKnowledgeBase ==
    web # NoCall =>
        /\ (web.uploads > 0 \/ web.adds > 0) => web.knowledge_base_id # ""
        /\ (web.pc = "done" /\ web.space_keys /\ web.knowledge_base_id = "") =>
               /\ web.uploads = 0 /\ web.adds = 0
               /\ web.outcomes = <<>> /\ web.last = NoCall
               /\ web.summary.failed_pages = 1
               /\ web.summary.successful_pages = 0
               /\ web.summary.successful_attachments = 0
               /\ web.summary.knowledge_base_id = ""

C18_Witness ==
    /\ web # NoCall /\ web.pc = "done"
    /\ web.space_keys /\ web.knowledge_base_id = ""
    /\ web.pages = MaxPages /\ Len(web.allowed) > 0
    /\ web.summary.failed_pages = 1

\* C20: in the summary export_content returns, filtered_attachments is the
\* number of attachments the attachment filter blocked in that run.
C20_FilteredAttachmentsCounted ==
    (web # NoCall /\ web.pc = "done") =>
        web.summary.filtered_attachments = Len(web.blocked)

(***************************************************************************)
(* execute_search (main.py) under its tenacity retry decorator, over       *)
(* SearchResults.from_cql (confluence.py).  An answer of confluence.cql is *)
(* a batch of n results, all of them pages, an HTTPError with a status, or *)
(* another exception.                                                      *)
(***************************************************************************)
MaxLimit == 3
stop_after_attempt == 3

RECURSIVE CqlLoop(_, _, _, _)
\* the while loop of from_cql from batch k at offset start: the number of
\* page ids collected, or the answer whose exception ended the loop. After
\* the scripted answers the server has no more results.
CqlLoop(answers, k, start, limit) ==
    IF start >= limit THEN [total |-> start, caught |-> NoValue]
    ELSE LET current_limit == IF paging_limit < limit - start
                              THEN paging_limit ELSE limit - start
             a == IF k <= Len(answers) THEN answers[k]
                  ELSE [kind |-> "results", n |-> 0, status |-> 200]
             size == IF a.n < current_limit THEN a.n ELSE current_limit
         IN  IF a.kind # "results" THEN [total |-> start, caught |-> a]
             ELSE IF size = 0 THEN [total |-> start, caught |-> NoValue]
             ELSE CqlLoop(answers, k + 1, start + size, limit)

\* SearchResults.from_cql: every exception of the loop is caught and an
\* empty result is returned (caught keeps which); else the sorted distinct
\* page ids. No exception leaves it: raised is always NoValue.
from_cql(answers, limit) ==
    LET r == CqlLoop(answers, 1, 0, limit) IN
    IF r.caught # NoValue
    THEN [raised |-> NoValue, page_ids |-> <<>>, caught |-> r.caught]
    ELSE [raised |-> NoValue, page_ids |-> [i \in 1 .. r.total |-> i],
          caught |-> NoValue]

\* one run of the body of execute_search: the page ids, the HTTPError
\* raised again for tenacity, or sys.exit(1)
execute_search(answers, limit) ==
    LET results == from_cql(answers, limit)
        e == results.raised
    IN  IF e = NoValue THEN [end |-> "returned", page_ids |-> results.page_ids]
        ELSE IF /\ e.kind = "http" /\ ResponseTruthy(e)
                /\ e.status \in {429, 502, 503, 504}
        THEN [end |-> "raised", page_ids |-> <<>>]
        ELSE [end |-> "exit", page_ids |-> <<>>]

InitSearch ==
    /\ cache = [k \in Kinds |-> <<>>]
    /\ recent = [k \in Kinds |-> [key \in Keys(k) |-> NotCached]]
    /\ last = NoCall
    /\ files = {}
    /\ pc = "idle"
    /\ cur = NoValue
    /\ result = NoCall
    /\ el = NoValue
    /\ cpage = NoValue
    /\ out = NoCall
    /\ desc = NoCall
    /\ conv = NoCall
    /\ web = NoCall
    /\ config = NoCall
    /\ run = NoCall
    /\ fetch = NoCall
    /\ \E limit \in 1 .. MaxLimit :
         search = [pc |-> "call", limit |-> limit, attempts |-> 0,
                   answers |-> <<>>, page_ids |-> <<>>, caught |-> NoValue]

\* one attempt of the retrying call: the body runs against the answers of
\* the server; an exception is retried until stop_after_attempt attempts
\* were made and then raised to the caller (reraise=True). caught keeps the
\* exception from_cql caught in this attempt.
SearchAttempt ==
    LET CqlAnswers ==
            {[kind |-> "results", n |-> n, status |-> 200] : n \in 0 .. paging_limit}
                \cup {[kind |-> "http", n |-> 0, status |-> st] :
                         st \in {400, 429, 500, 502, 503, 504}}
                \cup {[kind |-> "error", n |-> 0, status |-> 0]}
    IN
    /\ search # NoCall /\ search.pc = "call"
    /\ \E a1 \in CqlAnswers, a2 \in CqlAnswers :
         LET answers == <<a1, a2>>
             r == execute_search(answers, search.limit)
             attempts == search.attempts + 1
         IN  search' = [search EXCEPT
                 !.attempts = attempts,
                 !.answers = answers,
                 !.caught = from_cql(answers, search.limit).caught,
                 !.page_ids = r.page_ids,
                 !.pc = IF r.end = "raised"
                        THEN IF attempts < stop_after_attempt THEN "call" ELSE "raised"
                        ELSE r.end]
    /\ UNCHANGED <<cache, recent, last, files, pc, cur, result, el, cpage, out,
                   desc, conv, web, config, run, fetch>>

NextSearch == SearchAttempt

SpecSearch == InitSearch /\ [][NextSearch]_vars

\* C19: execute_search runs the CQL search again when it failed with a
\* transient HTTP error (429, 502, 503, 504), up to 3 attempts in all, and
\* returns the page ids of the first attempt that succeeds: the call ends
\* after a transient failure only when 3 attempts were made, and it never
\* returns the outcome of an attempt that failed so.
C19_TransientErrorRetried ==
    (/\ search # NoCall /\ search.pc # "call"
     /\ search.caught # NoValue /\ search.caught.kind = "http"
     /\ search.caught.status \in {429, 502, 503, 504}) =>
        /\ search.attempts = stop_after_attempt
        /\ search.pc # "returned"

(***************************************************************************)
(* C21: the attachment filter                                              *)
(***************************************************************************)

\* C21: filter_attachments places every input attachment in exactly one of
\* 'allowed' and 'blocked', each in input order, by the first rule that
\* applies: no extension, allowed; extension in the configured blocked
\* list, blocked; in the configured allowed list, allowed; in the default
\* allowed list, allowed; in the default blocked list, blocked; otherwise
\* allowed.
C21_FilterPartitionsByPrecedence ==
    (web # NoCall /\ web.pc \notin {"start"} /\ web.space_keys) =>
        LET n == Len(web.attachments)
            Verdict(ext) ==
                CASE ext = "" -> "allowed"
                  [] ext # "" /\ ext \in web.blocked_extensions -> "blocked"
                  [] ext # "" /\ ext \notin web.blocked_extensions
                       /\ ext \in web.allowed_extensions -> "allowed"
                  [] OTHER ->
                       IF ext \in {".txt", ".md", ".json", ".yaml", ".yml", ".csv"}
                       THEN "allowed"
                       ELSE IF ext \in {".exe", ".bat", ".sh", ".dll", ".so", ".dmg", ".iso"}
                       THEN "blocked"
                       ELSE "allowed"
            \* the positions of the input with the verdict, in input order
            Of(verdict) == {i \in 1 .. n : Verdict(web.attachments[i]) = verdict}
            InOrder(list, verdict) ==
                /\ Len(list) = Cardinality(Of(verdict))
                /\ \A k \in 1 .. Len(list) :
                      \E i \in Of(verdict) :
                          /\ Cardinality({j \in Of(verdict) : j <= i}) = k
                          /\ list[k] = web.attachments[i]
        IN  /\ InOrder(web.allowed, "allowed")
            /\ InOrder(web.blocked, "blocked")
            /\ Len(web.allowed) + Len(web.blocked) = n

\* an extension in both configured lists was blocked, and a default blocked
\* extension in the configured allowed list was allowed
C21_Witness ==
    /\ web # NoCall /\ web.pc = "kb"
    /\ web.blocked_extensions = {".pdf"} /\ web.allowed_extensions = {".pdf", ".exe"}
    /\ web.attachments = <<".pdf", ".exe">>
    /\ web.blocked = <<".pdf">> /\ web.allowed = <<".exe">>

(***************************************************************************)
(* C27, C28: requests per file and the page counters of the summary        *)
(***************************************************************************)

\* C27: during one export_content run at most one add-file request (POST
\* /knowledge/{id}/file/add) is issued per uploaded file: the run has sent
\* no more add-file requests than file uploads.
C27_OneAddPerUploadedFile ==
    (web # NoCall /\ web.pc = "done") => web.adds <= web.uploads

\* C28: in every summary export_content returns, successful_pages +
\* failed_pages + skipped_pages <= total_pages.
C28_PageCountersWithinTotal ==
    (web # NoCall /\ web.pc = "done") =>
        web.summary.successful_pages + web.summary.failed_pages
            + web.summary.skipped_pages <= web.summary.total_pages

(***************************************************************************)
(* C24: termination of the conversion of one element                       *)
(***************************************************************************)

\* C24: the conversion of a single element always terminates with its
\* Markdown: resolving a create-page link through the fallback anchor of
\* the editor2 body, and recovering a toc or jira table fragment from the
\* export-view body, never recurse until the interpreter gives up with a
\* RecursionError, whatever markers the fallback anchor or the fragment
\* carries.
C24_ConversionTerminates ==
    out.op = "convert" => out.raised # "RecursionError"

(***************************************************************************)
(* C25: the front matter holds what the body conversion found              *)
(***************************************************************************)

\* C25 as claimed: the front matter at the top of the Markdown holds every
\* property found while the body was converted, and the labels of the page
\* as tags.
C25_FrontMatterHoldsBodyProperties ==
    Rendered =>
        /\ \A k \in DOMAIN conv.body :
              \E i \in 1 .. Len(conv.yml) : conv.yml[i] = <<k, conv.body[k]>>
        /\ cpage.labels # <<>> =>
              \E i \in 1 .. Len(conv.yml) : conv.yml[i] = <<"tags", List(labels(cpage))>>
        /\ conv.markdown = conv.front_matter \o <<"\n", "md_body", "\n">>

\* C25: the front matter at the top of the Markdown holds every property
\* found while the body was converted, except that on a page with labels a
\* body property whose key is tags gives way to the labels; the labels of
\* the page, when it has any, are the property tags.  The body is converted
\* before the front matter is rendered, and the front matter comes first.
C25_FrontMatterHoldsBodyPropertiesButTags ==
    Rendered =>
        /\ \A k \in DOMAIN conv.body :
              (k # "tags" \/ cpage.labels = <<>>) =>
                  \E i \in 1 .. Len(conv.yml) : conv.yml[i] = <<k, conv.body[k]>>
        /\ cpage.labels # <<>> =>
              \E i \in 1 .. Len(conv.yml) : conv.yml[i] = <<"tags", List(labels(cpage))>>
        /\ conv.markdown = conv.front_matter \o <<"\n", "md_body", "\n">>
        /\ DOMAIN conv.body # {} => conv.markdown[1] = "---"

\* a page with a label and a body property Owner: both are in the front
\* matter, which comes before the body
C25_Witness ==
    /\ Rendered /\ cpage.labels = <<"a">>
    /\ DOMAIN conv.body = {"Owner"} /\ conv.body["Owner"] = Str("Alice")
    /\ conv.yml = <<<<"Owner", Str("Alice")>>, <<"tags", List(labels(cpage))>>>>
    /\ conv.markdown[1] = "---"

(***************************************************************************)
(* SpecConfig: the configuration file of utils/app_data_store.py under     *)
(* set_setting and reset_to_defaults.  The file is a function from the     *)
(* dot-paths of its options to their values; of the options of ConfigModel *)
(* it keeps the ones the validator reads, an API key outside Open-WebUI    *)
(* and the option main.py sets.                                            *)
(***************************************************************************)

\* ConfigModel().model_dump(): the defaults of the options
DefaultConfig ==
    [p \in {"export.output_path", "export.export_to_open_webui",
            "auth.open_webui.url", "auth.open_webui.api_key",
            "auth.confluence.api_token"} |->
        IF p = "export.output_path" THEN "."
        ELSE IF p = "export.export_to_open_webui" THEN FALSE
        ELSE ""]

\* ConfigModel.check_open_webui_credentials: with export_to_open_webui
\* enabled both the URL and the API key of Open-WebUI must be set
check_open_webui_credentials(data) ==
    data["export.export_to_open_webui"] =>
        /\ data["auth.open_webui.url"] # ""
        /\ data["auth.open_webui.api_key"] # ""

\* load_app_data: the content of the file when ConfigModel accepts it, the
\* defaults when it raises ValidationError
load_app_data(file) ==
    IF check_open_webui_credentials(file) THEN file ELSE DefaultConfig

\* _set_by_path for the path of an option or of the section auth.open_webui
\* (value is then a function over the options of the section)
_set_by_path(obj, path, value) ==
    IF path = "auth.open_webui"
    THEN [p \in DOMAIN obj |-> IF p \in DOMAIN value THEN value[p] ELSE obj[p]]
    ELSE [obj EXCEPT ![path] = value]

\* set_setting for the path of an option: the file it leaves, and whether
\* it raised ValueError.  auth_copy is a shallow copy, so its sections are
\* the very dicts _set_by_path updates: the API keys copied back from it
\* after validation are the ones of the updated data.
set_setting(file, path, value) ==
    LET data == _set_by_path(load_app_data(file), path, value)
        auth_copy == data
        settings_dict ==
            [p \in DOMAIN data |->
                IF p \in {"auth.open_webui.api_key", "auth.confluence.api_token"}
                THEN auth_copy[p] ELSE data[p]]
    IN  IF check_open_webui_credentials(data)
        THEN [file |-> settings_dict, raised |-> "none"]
        ELSE [file |-> file, raised |-> "ValueError"]

\* reset_to_defaults: the file it leaves.  path "None" resets the whole
\* file; otherwise the default of the path is put into the loaded data,
\* which is saved as it is.
reset_to_defaults(file, path) ==
    IF path = "None" THEN DefaultConfig
    ELSE LET default_value ==
                 IF path = "auth.open_webui"
                 THEN [p \in {"auth.open_webui.url", "auth.open_webui.api_key"} |->
                          DefaultConfig[p]]
                 ELSE DefaultConfig[path]
         IN  _set_by_path(load_app_data(file), path, default_value)

\* no file yet: load_app_data reads it as the defaults
InitConfig ==
    /\ cache = [k \in Kinds |-> <<>>]
    /\ recent = [k \in Kinds |-> [key \in Keys(k) |-> NotCached]]
    /\ last = NoCall
    /\ files = {}
    /\ pc = "idle"
    /\ cur = NoValue
    /\ result = NoCall
    /\ el = NoValue
    /\ cpage = NoValue
    /\ out = NoCall
    /\ desc = NoCall
    /\ conv = NoCall
    /\ web = NoCall
    /\ search = NoCall
    /\ config = [file |-> DefaultConfig, previous |-> DefaultConfig,
                 op |-> "none", path |-> "None", value |-> "", raised |-> "none"]
    /\ run = NoCall
    /\ fetch = NoCall

\* a call of set_setting
SetSetting(path, value) ==
    /\ config # NoCall
    /\ LET r == set_setting(config.file, path, value) IN
       config' = [file |-> r.file, previous |-> config.file, op |-> "set_setting",
                  path |-> path, value |-> value, raised |-> r.raised]
    /\ UNCHANGED <<cache, recent, last, files, pc, cur, result, el, cpage, out,
                   desc, conv, web, search, run, fetch>>

\* a call of reset_to_defaults
ResetToDefaults(path) ==
    /\ config # NoCall
    /\ config' = [file |-> reset_to_defaults(config.file, path),
                  previous |-> config.file, op |-> "reset_to_defaults",
                  path |-> path, value |-> "", raised |-> "none"]
    /\ UNCHANGED <<cache, recent, last, files, pc, cur, result, el, cpage, out,
                   desc, conv, web, search, run, fetch>>

NextConfig ==
    \/ \E path \in DOMAIN DefaultConfig :
         \E value \in (IF path = "export.export_to_open_webui" THEN BOOLEAN
                       ELSE IF path = "export.output_path" THEN {".", "out"}
                       ELSE IF path = "auth.open_webui.url" THEN {"", "https://owui"}
                       ELSE {"", "secret"}) :
            SetSetting(path, value)
    \/ \E path \in DOMAIN DefaultConfig \cup {"auth.open_webui", "None"} :
         ResetToDefaults(path)

SpecConfig == InitConfig /\ [][NextConfig]_vars

(***************************************************************************)
(* C22, C29: what set_setting and reset_to_defaults leave on disk          *)
(***************************************************************************)

\* C22: after set_setting(path, value) succeeds the file differs from the
\* previous one only at path: every other option, and so every stored API
\* key not addressed by path, is unchanged, and the option at path holds
\* the new value.
C22_OnlyPathChanges ==
    (config # NoCall /\ config.op = "set_setting" /\ config.raised = "none") =>
        /\ config.file[config.path] = config.value
        /\ \A p \in DOMAIN config.file \ {config.path} :
              config.file[p] = config.previous[p]

\* C29: after any sequence of set_setting and reset_to_defaults calls the
\* file validates against ConfigModel, so that a load returns what is
\* stored.
C29_FileAlwaysValid ==
    config # NoCall =>
        /\ check_open_webui_credentials(config.file)
        /\ load_app_data(config.file) = config.file

(***************************************************************************)
(* SpecUpload: _export_content_to_open_webui (main.py) from the filtering  *)
(* of the collected attachments to the end of its retry loop around        *)
(* export_content.  An attachment is its extension and its size in KB; an  *)
(* optional argument is a set holding its value when it is given.          *)
(***************************************************************************)

MaxRetries == 2

\* the retry loop with the test of retry_errors left out
retry_step_always_retry(r, raises) ==
    IF ~(r.retry_count <= r.max_retries) THEN [r EXCEPT !.pc = "done"]
    ELSE IF ~raises
    THEN [r EXCEPT !.outcomes = Append(@, "returned"), !.success = TRUE, !.pc = "done"]
    ELSE [r EXCEPT !.outcomes = Append(@, "raised"),
                   !.retry_count = @ + 1,
                   !.pc = IF r.retry_count + 1 <= r.max_retries THEN "loop" ELSE "done"]

\* one test of the while condition and, when it holds, one pass of the loop
\* body: export_content is called and returns (success, break) or raises
\* (retry_count grows; the loop goes on when retry_errors is set and the
\* count is within max_retries, else break)
retry_step(r, raises) ==
    IF ~(r.retry_count <= r.max_retries) THEN [r EXCEPT !.pc = "done"]
    ELSE IF ~raises
    THEN [r EXCEPT !.outcomes = Append(@, "returned"), !.success = TRUE, !.pc = "done"]
    ELSE [r EXCEPT !.outcomes = Append(@, "raised"),
                   !.retry_count = @ + 1,
                   !.pc = IF r.retry_errors /\ r.retry_count + 1 <= r.max_retries
                          THEN "loop" ELSE "done"]

InitUpload ==
    /\ cache = [k \in Kinds |-> <<>>]
    /\ recent = [k \in Kinds |-> [key \in Keys(k) |-> NotCached]]
    /\ last = NoCall
    /\ files = {}
    /\ pc = "idle"
    /\ cur = NoValue
    /\ result = NoCall
    /\ el = NoValue
    /\ cpage = NoValue
    /\ out = NoCall
    /\ desc = NoCall
    /\ conv = NoCall
    /\ web = NoCall
    /\ search = NoCall
    /\ config = NoCall
    /\ fetch = NoCall
    /\ \E atts \in UNION {[1 .. n -> {[ext |-> ".png", size_kb |-> 10],
                                      [ext |-> ".pdf", size_kb |-> 100],
                                      [ext |-> ".exe", size_kb |-> 10]}] :
                            n \in 0 .. MaxAttachments},
          fi \in BOOLEAN, fd \in BOOLEAN, mins \in {{}, {50}}, maxs \in {{}, {50}},
          re \in BOOLEAN, mr \in -2 .. MaxRetries :
         run = [pc |-> "filter", attachment_dicts |-> atts,
                filter_image_types |-> fi, filter_document_types |-> fd,
                min_size_kb |-> mins, max_size_kb |-> maxs,
                retry_errors |-> re, max_retries |-> mr,
                environ |-> [n \in {} |-> ""], filtered_attachments |-> <<>>,
                retry_count |-> 0, success |-> FALSE, outcomes |-> <<>>]

\* lines 400-424: an AttachmentFilter without configuration is created, the
\* filter arguments are written to the environment, and the attachments
\* the filter allows are kept for export_content
UploadFilter ==
    /\ run # NoCall /\ run.pc = "filter"
    /\ LET environ ==
               [n \in {"FILTER_IMAGE_TYPES", "FILTER_DOCUMENT_TYPES"}
                      \cup (IF run.min_size_kb # {} THEN {"MIN_SIZE_KB"} ELSE {})
                      \cup (IF run.max_size_kb # {} THEN {"MAX_SIZE_KB"} ELSE {}) |->
                   IF n = "FILTER_IMAGE_TYPES"
                   THEN (IF run.filter_image_types THEN "true" ELSE "false")
                   ELSE IF n = "FILTER_DOCUMENT_TYPES"
                   THEN (IF run.filter_document_types THEN "true" ELSE "false")
                   ELSE "50"]
           \* filter_attachments reads the extension of each attachment
           allowed(a) == filter_attachments(<<a.ext>>, {}, {}).allowed # <<>>
       IN  run' = [run EXCEPT !.pc = "loop",
                              !.environ = environ,
                              !.filtered_attachments =
                                  SelectSeq(run.attachment_dicts, allowed)]
    /\ UNCHANGED <<cache, recent, last, files, pc, cur, result, el, cpage, out,
                   desc, conv, web, search, config, fetch>>

\* lines 450-526: the retry loop; raises tells how the call of
\* export_content ends
UploadAttempt ==
    /\ run # NoCall /\ run.pc = "loop"
    /\ \E raises \in BOOLEAN : run' = retry_step(run, raises)
    /\ UNCHANGED <<cache, recent, last, files, pc, cur, result, el, cpage, out,
                   desc, conv, web, search, config, fetch>>

NextUpload ==
    \/ UploadFilter
    \/ UploadAttempt

SpecUpload == InitUpload /\ [][NextUpload]_vars

(***************************************************************************)
(* C23: the type and size filters                                          *)
(***************************************************************************)

\* C23: with filter_image_types or filter_document_types enabled, or with
\* min_size_kb / max_size_kb set, no attachment of the named types (an
\* image such as .png, a document such as .pdf) and none outside the size
\* bounds is among the attachments handed to export_content for upload.
C23_TypeAndSizeFiltersExclude ==
    (run # NoCall /\ run.pc # "filter") =>
        \A i \in 1 .. Len(run.filtered_attachments) :
            LET a == run.filtered_attachments[i] IN
            /\ run.filter_image_types => a.ext # ".png"
            /\ run.filter_document_types => a.ext # ".pdf"
            /\ \A kb \in run.min_size_kb : a.size_kb >= kb
            /\ \A kb \in run.max_size_kb : a.size_kb <= kb

(***************************************************************************)
(* C26: the retry loop                                                     *)
(***************************************************************************)

\* C26 as claimed: export_content is called at most max_retries + 1 times,
\* never again after a call that returned, and exactly once when
\* retry_errors is false; success is reported exactly when a call returned.
C26_RetryLoop ==
    run # NoCall =>
        /\ run.pc = "done" => Len(run.outcomes) <= run.max_retries + 1
        /\ \A i \in 1 .. Len(run.outcomes) - 1 : run.outcomes[i] = "raised"
        /\ (run.pc = "done" /\ ~run.retry_errors) => Len(run.outcomes) = 1
        /\ run.pc = "done" =>
              (run.success <=> \E i \in 1 .. Len(run.outcomes) : run.outcomes[i] = "returned")

\* C26: export_content is called at most max_retries + 1 times and not at
\* all when max_retries is negative, never again after a call that
\* returned, and, when retry_errors is false and max_retries is not
\* negative, exactly once; success is reported exactly when a call
\* returned.
C26_RetryLoopNonNegative ==
    run # NoCall =>
        /\ Len(run.outcomes) <= (IF run.max_retries < 0 THEN 0 ELSE run.max_retries + 1)
        /\ \A i \in 1 .. Len(run.outcomes) - 1 : run.outcomes[i] = "raised"
        /\ (run.pc = "done" /\ ~run.retry_errors /\ run.max_retries >= 0) =>
              Len(run.outcomes) = 1
        /\ run.pc = "done" =>
              (run.success <=> \E i \in 1 .. Len(run.outcomes) : run.outcomes[i] = "returned")

\* with retry_errors false and two retries allowed, the one call raised and
\* the run ended without success
C26_Witness ==
    /\ run # NoCall /\ run.pc = "done"
    /\ ~run.retry_errors /\ run.max_retries = 2
    /\ run.outcomes = <<"raised">> /\ ~run.success

(***************************************************************************)
(* SpecFetch: Attachment.from_page_id against a server that stores the     *)
(* attachments 1 .. total of the page and gives at most server_limit of    *)
(* them per response.                                                      *)
(***************************************************************************)

\* one pass of the loop body: the response holds the n attachments after
\* start and says so in "size"; they are appended, size and start are
\* updated and the while condition is tested again
from_page_id_step(f, n) ==
    LET results == [i \in 1 .. n |-> f.start + i]
        size == n
    IN  [f EXCEPT !.attachments = @ \o results,
                  !.size = size,
                  !.start = @ + size,
                  !.responses = Append(@, n),
                  !.pc = IF size >= paging_limit THEN "loop" ELSE "done"]

\* start = 0 and size = paging_limit, which enters the loop
InitFetch ==
    /\ cache = [k \in Kinds |-> <<>>]
    /\ recent = [k \in Kinds |-> [key \in Keys(k) |-> NotCached]]
    /\ last = NoCall
    /\ files = {}
    /\ pc = "idle"
    /\ cur = NoValue
    /\ result = NoCall
    /\ el = NoValue
    /\ cpage = NoValue
    /\ out = NoCall
    /\ desc = NoCall
    /\ conv = NoCall
    /\ web = NoCall
    /\ search = NoCall
    /\ config = NoCall
    /\ run = NoCall
    /\ \E page_id \in 1 .. NumPages, total \in 0 .. MaxTotal,
          server_limit \in 1 .. paging_limit + 1 :
         fetch = [pc |-> "loop", page_id |-> page_id, total |-> total,
                  server_limit |-> server_limit,
                  attachments |-> <<>>, start |-> 0, size |-> paging_limit,
                  responses |-> <<>>]

\* get_attachments_from_content(page_id, start, limit=paging_limit): the
\* server answers with some of the attachments after start, at least one
\* when there is one, never more than limit or than its own maximum
FetchQuery ==
    /\ fetch # NoCall /\ fetch.pc = "loop"
    /\ LET remaining == IF fetch.total > fetch.start THEN fetch.total - fetch.start ELSE 0
           most == IF remaining < paging_limit THEN remaining ELSE paging_limit
       IN  \E n \in 0 .. most :
              /\ n <= fetch.server_limit
              /\ remaining > 0 => n > 0
              /\ fetch' = from_page_id_step(fetch, n)
    /\ UNCHANGED <<cache, recent, last, files, pc, cur, result, el, cpage, out,
                   desc, conv, web, search, config, run>>

NextFetch == FetchQuery

SpecFetch == InitFetch /\ [][NextFetch]_vars

(***************************************************************************)
(* C30: the attachments of a page                                          *)
(***************************************************************************)

\* C30: Attachment.from_page_id returns every attachment of the page
\* exactly once, for any number of results the server gives per response.
C30_EveryAttachmentOnce ==
    (fetch # NoCall /\ fetch.pc = "done") =>
        fetch.attachments = [i \in 1 .. fetch.total |-> i]
====
